---------------------------- MODULE Spec2Model ----------------------------
(***************************************************************************)
(* Reserve-life tracker: the fact extractor (app/oil_extraction.py,        *)
(* app/llm_client.py), the Dash callbacks that own the company store       *)
(* (app/callbacks.py) and the memoized ticker -> CIK resolver.             *)
(*                                                                         *)
(* Five specifications share the variables:                                *)
(*   SpecExtract  extract_oil_data_from_filing applied to one environment  *)
(*   Spec         the callbacks acting on the company store                *)
(*   SpecCache    get_cached_cik under a workload that fills the cache     *)
(*   SpecDiscover get_filings_in_date_range applied to one archive         *)
(*   SpecSession  callback requests of one browser session in flight       *)
(***************************************************************************)
EXTENDS Integers, Sequences, FiniteSets, TLC

VARIABLES
    store,      \* dcc.Store 'company-store': ticker -> {info, filings}
    persisted,  \* contents of DATA_FILE as last written by save_company_data
    cache,      \* lru_cache of get_cached_cik, least recently used first
    last,       \* what the latest callback run did (inputs, events, outputs)
    ext,        \* SpecExtract: the environment of one extract() call and its result
    lookup,     \* SpecCache: the latest get_cached_cik call
    listing,    \* SpecDiscover: one get_filings_in_date_range call and its result
    inflight    \* SpecSession: the callback requests sent and not yet answered

vars == <<store, persisted, cache, last, ext, lookup, listing, inflight>>

(***************************************************************************)
(* Python values                                                           *)
(***************************************************************************)
None == [t |-> "none"]

\* math.nan and the other floats; a float is tested with isnan before it is compared
NaN == [isnan |-> TRUE]
Num(v) == [isnan |-> FALSE, v |-> v]
isnan(x) == x.isnan

\* dict.get(key, default)
Get(d, key, default) == IF key \in DOMAIN d THEN d[key] ELSE default

EmptyDict == <<>>

Range(seq) == {seq[i] : i \in 1..Len(seq)}

\* no callback has run yet
NoRun == [op |-> "none"]

Min(a, b) == IF a <= b THEN a ELSE b

(***************************************************************************)
(* JSON values a model response can hold for one field, as json.loads      *)
(* returns them                                                            *)
(***************************************************************************)
JNull == [j |-> "null"]
JNum(v) == [j |-> "num", v |-> v]
\* an integer literal above the float range (more than 308 digits)
JBigInt == [j |-> "bigint"]
\* a string that float() parses, e.g. "50000000"
JNumStr(v) == [j |-> "numstr", v |-> v]
\* a string that float() rejects, e.g. "N/A"
JBadStr == [j |-> "badstr"]
JList == [j |-> "list"]

\* float(raw) inside try/except (ValueError, TypeError): None -> nan, a number or
\* numeric string -> its float, ValueError/TypeError -> nan; float() of an integer
\* above the float range raises OverflowError, which the except clause does not name
to_float(raw) ==
    CASE raw.j = "null" -> [raised |-> FALSE, val |-> NaN]
      [] raw.j = "num" -> [raised |-> FALSE, val |-> Num(raw.v)]
      [] raw.j = "numstr" -> [raised |-> FALSE, val |-> Num(raw.v)]
      [] raw.j = "badstr" -> [raised |-> FALSE, val |-> NaN]
      [] raw.j = "list" -> [raised |-> FALSE, val |-> NaN]
      [] raw.j = "bigint" -> [raised |-> TRUE, val |-> NaN]

(***************************************************************************)
(* llm_client.extract_json_from_response                                   *)
(*                                                                         *)
(* A response text is given by what each candidate parses to: the whole    *)
(* text, the matches of \{[^{}]*\} left to right, the matches of the       *)
(* nested pattern left to right.  A candidate parses to                    *)
(*   [t |-> "bad"]              json.JSONDecodeError                       *)
(*   [t |-> "obj", o |-> f]     a dict f                                   *)
(*   [t |-> "list", has |-> S]  a list whose string items are S            *)
(*   [t |-> "str", has |-> S]   a string whose substrings among the keys   *)
(*                              are S                                      *)
(*   [t |-> "scalar"]           a number, true, false or null              *)
(* A regex match starts with { and ends with }: it is "bad" or an "obj".   *)
(***************************************************************************)
Bad == [t |-> "bad"]
Obj(f) == [t |-> "obj", o |-> f]
JsonList(S) == [t |-> "list", has |-> S]
JsonStr(S) == [t |-> "str", has |-> S]
Scalar == [t |-> "scalar"]

RequiredKeys == {"proved_reserves", "annual_production"}

\* mutant: any() in place of all()
HasAnyKey(data, required_keys) ==
    CASE data.t = "obj" -> required_keys \cap DOMAIN data.o # {}
      [] data.t = "list" -> required_keys \cap data.has # {}
      [] data.t = "str" -> required_keys \cap data.has # {}
      [] OTHER -> FALSE

\* all(key in data for key in required_keys); `in` on a number or None raises TypeError
HasAllKeys(data, required_keys) ==
    CASE data.t = "obj" -> required_keys \subseteq DOMAIN data.o
      [] data.t = "list" -> required_keys \subseteq data.has
      [] data.t = "str" -> required_keys \subseteq data.has
      [] OTHER -> FALSE

\* the for loops over re.findall matches: the first match that parses and has the keys
RECURSIVE FirstMatch(_, _)
FirstMatch(matches, required_keys) ==
    IF matches = <<>> THEN None
    ELSE IF Head(matches).t = "obj" /\ HasAllKeys(Head(matches), required_keys)
         THEN Head(matches)
         ELSE FirstMatch(Tail(matches), required_keys)

\* the whole-response attempt: what decides whether the function returns there
WholeQualifies(whole, required_keys) ==
    whole.t # "bad" /\ HasAllKeys(whole, required_keys)

extract_json_from_response(response, required_keys) ==
    IF response.whole.t = "scalar" THEN [raised |-> TRUE, data |-> None]
    ELSE IF WholeQualifies(response.whole, required_keys)
    THEN [raised |-> FALSE, data |-> response.whole]
    ELSE LET flat == FirstMatch(response.flat, required_keys)
         IN  IF flat # None THEN [raised |-> FALSE, data |-> flat]
             ELSE [raised |-> FALSE, data |-> FirstMatch(response.nested, required_keys)]

(***************************************************************************)
(* oil_extraction.has_reserves_keywords, has_production_keywords,          *)
(* has_numbers                                                             *)
(*                                                                         *)
(* A text is the sequence of its words, joined by single spaces.  A word   *)
(* is given by its spelling, its number of characters, the keyword tokens  *)
(* that are substrings of its lower-cased spelling, and whether it holds a *)
(* decimal digit.  No keyword token holds a space, so a token is a         *)
(* substring of the lower-cased text exactly when it is one of some word.  *)
(***************************************************************************)
MinKeywordLen == 20
MinElementLen == 30

Word(spelling, len, tokens, digit) ==
    [spelling |-> spelling, len |-> len, tokens |-> tokens, digit |-> digit]

RECURSIVE SumLen(_, _)
SumLen(text, i) == IF i > Len(text) THEN 0 ELSE text[i].len + SumLen(text, i + 1)

\* len(text)
Length(text) == IF text = <<>> THEN 0 ELSE SumLen(text, 1) + (Len(text) - 1)

\* the keyword tokens t with  t in text.lower()
text_lower(text) == UNION {text[i].tokens : i \in 1..Len(text)}

ReservesOilIndicators == {"oil", "crude", "barrel", "bbl", "mmbbl", "petroleum"}
ProductionOilIndicators == {"oil", "crude", "barrel", "bbl", "bpd", "mbpd", "petroleum"}
RateIndicators == {"day", "daily", "annual", "year", "mbpd", "bpd"}

has_reserves_keywords(text) ==
    IF text = <<>> \/ Length(text) < MinKeywordLen THEN FALSE
    ELSE IF "reserve" \notin text_lower(text) THEN FALSE
    ELSE IF ReservesOilIndicators \cap text_lower(text) = {} THEN FALSE
    ELSE {"proved", "proven", "total"} \cap text_lower(text) # {}

has_production_keywords(text) ==
    IF text = <<>> \/ Length(text) < MinKeywordLen THEN FALSE
    ELSE IF {"production", "produced"} \cap text_lower(text) = {} THEN FALSE
    ELSE IF ProductionOilIndicators \cap text_lower(text) = {} THEN FALSE
    ELSE RateIndicators \cap text_lower(text) # {}

has_numbers(text) == \E i \in 1..Len(text) : text[i].digit

\* mutant: the reserves test of a table without the digit requirement
TableKeywordsOnly(text) ==
    [reserves |-> has_reserves_keywords(text),
     production |-> has_production_keywords(text) /\ has_numbers(text)]

\* the two tests of the table loop
ClassifyTable(text) ==
    [reserves |-> has_reserves_keywords(text) /\ has_numbers(text),
     production |-> has_production_keywords(text) /\ has_numbers(text)]

\* the two tests of the text-element loop, under len(text) > 30
ClassifyElement(text) ==
    [reserves |-> Length(text) > MinElementLen
                    /\ has_reserves_keywords(text) /\ has_numbers(text),
     production |-> Length(text) > MinElementLen
                    /\ has_production_keywords(text) /\ has_numbers(text)]

\* the parsed page as the narrowing sees it: every table and text element
\* with the verdicts of the two tests on its text
Classified(page) ==
    [tables |-> [i \in 1..Len(page.tables) |-> ClassifyTable(page.tables[i])],
     elems |-> [i \in 1..Len(page.elems) |-> ClassifyElement(page.elems[i])]]

(***************************************************************************)
(* oil_extraction.extract_oil_content                                      *)
(*                                                                         *)
(* A filing's HTML is given by its tables and its text elements in         *)
(* document order, each by the verdict of the two keyword classifiers on   *)
(* its text (has_reserves_keywords/has_production_keywords and             *)
(* has_numbers, and for text elements len(text) > 30).                     *)
(***************************************************************************)
MaxParagraphs == 20

RECURSIVE Matching(_, _, _)
Matching(items, category, i) ==
    IF i > Len(items) THEN <<>>
    ELSE (IF items[i][category] THEN <<i>> ELSE <<>>) \o Matching(items, category, i + 1)

\* mutant: every matching paragraph kept
ExcerptUncapped(html, category) ==
    [tables |-> Matching(html.tables, category, 1),
     paragraphs |-> Matching(html.elems, category, 1)]

Excerpt(html, category) ==
    LET tables == Matching(html.tables, category, 1)
        paragraphs == Matching(html.elems, category, 1)
    IN  [tables |-> tables,
         paragraphs |-> SubSeq(paragraphs, 1, Min(MaxParagraphs, Len(paragraphs)))]

\* reserves_text.strip() is empty exactly when nothing matched
IsBlank(excerpt) == excerpt.tables = <<>> /\ excerpt.paragraphs = <<>>

extract_oil_content(html) ==
    [reserves |-> Excerpt(html, "reserves"), production |-> Excerpt(html, "production")]

(***************************************************************************)
(* oil_extraction.extract_oil_data_with_llm and its callees.               *)
(* env is what the outside world answers during one call:                  *)
(*   env.llm_available  PERPLEXITY_AVAILABLE and a client could be built   *)
(*   env.fetch          [kind |-> "ok", html |-> h], "empty" (200 with an  *)
(*                      empty body), "http_error", "exception"             *)
(*   env.reply          [kind |-> "text", whole, flat, nested], "blank"    *)
(*                      (empty content), "failed" (the API call raised)    *)
(***************************************************************************)
\* mutant: the availability check dropped
AssumeAvailable(env) == TRUE

is_llm_available(env) == env.llm_available

download_filing_html(env) ==
    CASE env.fetch.kind = "ok" ->
            [html |-> env.fetch.html, log |-> <<"Downloading", "Downloaded">>]
      [] env.fetch.kind = "empty" ->
            [html |-> None, log |-> <<"Downloading", "Downloaded">>]
      [] env.fetch.kind = "http_error" ->
            [html |-> None, log |-> <<"Downloading", "HTTP Error">>]
      [] env.fetch.kind = "exception" ->
            [html |-> None, log |-> <<"Downloading", "Download error">>]

query_llm(env) ==
    CASE env.reply.kind = "text" ->
            [response |-> env.reply, log |-> <<"Querying LLM", "LLM responded">>]
      [] env.reply.kind = "blank" ->
            [response |-> None, log |-> <<"Querying LLM", "LLM responded">>]
      [] env.reply.kind = "failed" ->
            [response |-> None, log |-> <<"Querying LLM", "LLM query failed">>]

ContentStatus(content) ==
    IF IsBlank(content.reserves) THEN "Reserves content is empty"
    ELSE IF IsBlank(content.production) THEN "Production content is empty"
    ELSE "Both reserves and production content found"

DataStatus(reserves_val, production_val) ==
    IF ~isnan(reserves_val) /\ ~isnan(production_val) THEN "SUCCESS"
    ELSE IF ~isnan(reserves_val) \/ ~isnan(production_val) THEN "PARTIAL"
    ELSE "No valid data extracted"

\* a return: result is None or the dict; fetches and llm_calls count the requests made
Return(result, log, fetches, llm_calls) ==
    [raised |-> FALSE, result |-> result, log |-> log,
     fetches |-> fetches, llm_calls |-> llm_calls]

Raise(log, fetches, llm_calls) ==
    [raised |-> TRUE, result |-> None, log |-> log,
     fetches |-> fetches, llm_calls |-> llm_calls]

\* lines 208-245: parse the response and coerce the two fields
ParseAndCoerce(response, log) ==
    LET parsed == extract_json_from_response(response, RequiredKeys)
        json_data == parsed.data
    IN  IF parsed.raised THEN Raise(log, 1, 1)
        ELSE IF json_data = None
        THEN Return(None, log \o <<"Failed to parse JSON from LLM response">>, 1, 1)
        ELSE IF json_data.t # "obj" THEN Raise(log \o <<"Successfully parsed JSON">>, 1, 1)
        ELSE LET log1 == log \o <<"Successfully parsed JSON">>
                 reserves == to_float(Get(json_data.o, "proved_reserves", JNull))
                 production == to_float(Get(json_data.o, "annual_production", JNull))
             IN  IF reserves.raised \/ production.raised THEN Raise(log1, 1, 1)
                 ELSE Return([proved_reserves |-> reserves.val,
                              annual_production |-> production.val],
                             log1 \o <<DataStatus(reserves.val, production.val)>>, 1, 1)

extract_oil_data_with_llm(env) ==
    IF ~is_llm_available(env) THEN Return(None, <<"LLM not available">>, 0, 0)
    ELSE LET download == download_filing_html(env)
         IN  IF download.html = None THEN Return(None, download.log, 1, 0)
             ELSE LET content == extract_oil_content(download.html)
                      log1 == download.log \o <<"Parsing HTML">>
                  IN  IF IsBlank(content.reserves) /\ IsBlank(content.production)
                      THEN Return(None, log1 \o <<"Both reserves and production content are empty">>, 1, 0)
                      ELSE LET reply == query_llm(env)
                               log2 == log1 \o <<ContentStatus(content), "Prompt created">> \o reply.log
                           IN  IF reply.response = None
                               THEN Return(None, log2 \o <<"LLM query failed">>, 1, 1)
                               ELSE ParseAndCoerce(reply.response, log2)

NaNData == [proved_reserves |-> NaN, annual_production |-> NaN]

\* mutant: the log written before an exception is dropped
CaughtWithoutLog(r) ==
    IF r.raised
    THEN [success |-> FALSE, data |-> NaNData, log |-> <<"Exception">>,
          fetches |-> r.fetches, llm_calls |-> r.llm_calls]
    ELSE IF r.result # None
    THEN [success |-> TRUE, data |-> r.result, log |-> r.log,
          fetches |-> r.fetches, llm_calls |-> r.llm_calls]
    ELSE [success |-> FALSE, data |-> NaNData, log |-> r.log,
          fetches |-> r.fetches, llm_calls |-> r.llm_calls]

\* lines 266-276 of extract_oil_data_from_filing: r is what the call at line 266
\* did (returned a dict, returned None, or raised into the except at line 270)
Caught(r) ==
    IF r.raised
    THEN [success |-> FALSE, data |-> NaNData, log |-> r.log \o <<"Exception">>,
          fetches |-> r.fetches, llm_calls |-> r.llm_calls]
    ELSE IF r.result # None
    THEN [success |-> TRUE, data |-> r.result, log |-> r.log,
          fetches |-> r.fetches, llm_calls |-> r.llm_calls]
    ELSE [success |-> FALSE, data |-> NaNData, log |-> r.log,
          fetches |-> r.fetches, llm_calls |-> r.llm_calls]

extract_oil_data_from_filing(env) == Caught(extract_oil_data_with_llm(env))

(***************************************************************************)
(* The environments extract() is checked against                           *)
(***************************************************************************)
MaxMatches == 2


RawValues ==
    {JNull, JNum(0), JNum(50000000), JNum(1500000000), JBigInt,
     JNumStr(50000000), JBadStr, JList}

Facts(reserves, production) ==
    Obj([proved_reserves |-> reserves, annual_production |-> production])

FullObjects == {Facts(r, p) : r \in RawValues, p \in RawValues}

PartObjects ==
    {Obj(EmptyDict), Obj([proved_reserves |-> JNum(1500000000)]),
     Obj([annual_production |-> JNum(50000000)])}

Wholes ==
    FullObjects \cup PartObjects
        \cup {Bad, Scalar, JsonList(RequiredKeys), JsonList({}),
              JsonStr(RequiredKeys), JsonStr({})}

\* what a regex match can parse to
MatchCands ==
    {Bad, Obj([proved_reserves |-> JNum(1500000000)]),
     Facts(JNum(1500000000), JNum(50000000)), Facts(JNull, JNum(50000000))}

SeqsUpTo(S, n) == UNION {[1..k -> S] : k \in 0..n}

Replies ==
    {[kind |-> "failed"], [kind |-> "blank"]}
        \cup {[kind |-> "text", whole |-> w, flat |-> <<>>, nested |-> <<>>] : w \in Wholes}
        \cup {[kind |-> "text", whole |-> w, flat |-> f, nested |-> n] :
                w \in {Bad, JsonList({}), Obj(EmptyDict)},
                f \in SeqsUpTo(MatchCands, MaxMatches),
                n \in SeqsUpTo(MatchCands, 1)}

Verdict(r, p) == [reserves |-> r, production |-> p]

Doc(tables, elems) == [tables |-> tables, elems |-> elems]

Htmls ==
    {Doc(<<>>, <<>>),
     Doc(<<Verdict(FALSE, FALSE)>>, <<Verdict(FALSE, FALSE), Verdict(FALSE, FALSE)>>),
     Doc(<<Verdict(TRUE, FALSE)>>, <<>>),
     Doc(<<>>, <<Verdict(FALSE, TRUE)>>),
     Doc(<<Verdict(TRUE, TRUE)>>, <<Verdict(FALSE, FALSE)>>),
     Doc(<<Verdict(FALSE, FALSE), Verdict(TRUE, FALSE)>>,
         <<Verdict(FALSE, TRUE), Verdict(TRUE, FALSE)>>)}

(***************************************************************************)
(* Pages for the narrowing: the texts of the tables and of the text        *)
(* elements, in document order                                             *)
(***************************************************************************)
MaxTables == 2
MaxFiller == 2

Page(tables, elems) == [tables |-> tables, elems |-> elems]

\* "Total proved crude oil reserves: 1,234 MMBbl"
TotalProvedText ==
    <<Word("Total", 5, {"total"}, FALSE), Word("proved", 6, {"proved"}, FALSE),
      Word("crude", 5, {"crude"}, FALSE), Word("oil", 3, {"oil"}, FALSE),
      Word("reserves:", 9, {"reserve"}, FALSE), Word("1,234", 5, {}, TRUE),
      Word("MMBbl", 5, {"bbl", "mmbbl"}, FALSE)>>

\* "widget sales: 1,234 units"
WidgetSalesText ==
    <<Word("widget", 6, {}, FALSE), Word("sales:", 6, {}, FALSE),
      Word("1,234", 5, {}, TRUE), Word("units", 5, {}, FALSE)>>

\* "Total proved crude oil reserves:"
NoDigitText == SubSeq(TotalProvedText, 1, 5)

\* "oil reserve total 9" (19 characters)
ShortText ==
    <<Word("oil", 3, {"oil"}, FALSE), Word("reserve", 7, {"reserve"}, FALSE),
      Word("total", 5, {"total"}, FALSE), Word("9", 1, {}, TRUE)>>

\* "oil reserves total 9" (20 characters)
TwentyText ==
    <<Word("oil", 3, {"oil"}, FALSE), Word("reserves", 8, {"reserve"}, FALSE),
      Word("total", 5, {"total"}, FALSE), Word("9", 1, {}, TRUE)>>

\* "PROVEN PETROLEUM RESERVES 2023"
UpperCaseText ==
    <<Word("PROVEN", 6, {"proven"}, FALSE), Word("PETROLEUM", 9, {"petroleum"}, FALSE),
      Word("RESERVES", 8, {"reserve"}, FALSE), Word("2023", 4, {}, TRUE)>>

\* "crude oil reserves: 1,234 MMBbl"
NoQualifierText == SubSeq(TotalProvedText, 3, 7)

\* "Total proved reserves: 1,234 units"
NoOilText ==
    <<Word("Total", 5, {"total"}, FALSE), Word("proved", 6, {"proved"}, FALSE),
      Word("reserves:", 9, {"reserve"}, FALSE), Word("1,234", 5, {}, TRUE),
      Word("units", 5, {}, FALSE)>>

\* "Total proved crude oil 1,234 MMBbl"
NoReserveText ==
    SubSeq(TotalProvedText, 1, 4) \o SubSeq(TotalProvedText, 6, 7)

\* "Crude oil production averaged 500 barrels per day"
ProductionText ==
    <<Word("Crude", 5, {"crude"}, FALSE), Word("oil", 3, {"oil"}, FALSE),
      Word("production", 10, {"production"}, FALSE), Word("averaged", 8, {}, FALSE),
      Word("500", 3, {}, TRUE), Word("barrels", 7, {"barrel"}, FALSE),
      Word("per", 3, {}, FALSE), Word("day", 3, {"day"}, FALSE)>>

\* "Proved oil reserves and daily production 2023"
BothText ==
    <<Word("Proved", 6, {"proved"}, FALSE), Word("oil", 3, {"oil"}, FALSE),
      Word("reserves", 8, {"reserve"}, FALSE), Word("and", 3, {}, FALSE),
      Word("daily", 5, {"daily"}, FALSE), Word("production", 10, {"production"}, FALSE),
      Word("2023", 4, {}, TRUE)>>

TableTexts ==
    {TotalProvedText, WidgetSalesText, NoDigitText, ShortText, TwentyText,
     UpperCaseText, NoQualifierText, NoOilText, NoReserveText, ProductionText,
     BothText}

ParagraphTexts == {TotalProvedText, ProductionText, BothText, WidgetSalesText, TwentyText}

Repeat(text, n) == [i \in 1..n |-> text]

\* a run of one paragraph around the cap, between a few of another
ElemRuns ==
    {Repeat(b, m) \o Repeat(a, n) \o Repeat(b, m) :
        a \in ParagraphTexts, b \in ParagraphTexts,
        n \in {0, 1, MaxParagraphs - 1, MaxParagraphs, MaxParagraphs + 1},
        m \in 0..MaxFiller}

NarrowPages ==
    {Page(t, e) : t \in SeqsUpTo(TableTexts, MaxTables), e \in {<<>>, <<BothText>>}}
        \cup {Page(t, e) : t \in {<<>>, <<TotalProvedText, BothText>>}, e \in ElemRuns}

Fetches ==
    {[kind |-> "ok", html |-> h] : h \in Htmls}
        \cup {[kind |-> "empty"], [kind |-> "http_error"], [kind |-> "exception"]}

ExtractEnvs ==
    {[llm_available |-> a, fetch |-> f, reply |-> r] :
        a \in BOOLEAN, f \in Fetches, r \in Replies}

(***************************************************************************)
(* The company store and the archive it is filled from                     *)
(***************************************************************************)
NumTickers == 2
NumFilings == 3

TickerSymbols == <<"BP", "COP", "CVX", "XOM">>
AccessionNumbers == <<"0001-24-000001", "0001-24-000002", "0001-24-000003",
                      "0001-24-000004", "0001-24-000005">>

Tickers == {TickerSymbols[i] : i \in 1..NumTickers}
Accessions == {AccessionNumbers[i] : i \in 1..NumFilings}

\* the archive files accession i under one filer, two filings to a filer
FilerOf(i) == TickerSymbols[((i - 1) \div 2) + 1]
ArchiveOf(ticker) == {AccessionNumbers[i] : i \in {j \in 1..NumFilings : FilerOf(j) = ticker}}

\* dict[key] = value
Put(d, key, value) == [k \in DOMAIN d \cup {key} |-> IF k = key THEN value ELSE d[k]]

\* dict.pop(key) for each key of keys
Without(d, keys) == [k \in DOMAIN d \ keys |-> d[k]]

\* persistence is outside this repository's sources: the file holds what was written
save_company_data(companies) == companies

(***************************************************************************)
(* sec_data.get_cik_from_ticker behind callbacks.get_cached_cik            *)
(* (functools.lru_cache, maxsize=128).  answer is what the symbol table    *)
(* request gives: "found" (status 200 and a row for the ticker) or         *)
(* "not_found" (no row, a non-200 status or a network error).              *)
(***************************************************************************)
lru_maxsize == 128

\* str(cik).zfill(10) of the ticker's row
CikOf(ticker) == [cik |-> ticker]

get_cik_from_ticker(ticker, answer) == IF answer = "found" THEN CikOf(ticker) ELSE None

IsCached(entries, key) == \E i \in 1..Len(entries) : entries[i].key = key

IndexOf(entries, key) == CHOOSE i \in 1..Len(entries) : entries[i].key = key

RemoveAt(seq, i) == SubSeq(seq, 1, i - 1) \o SubSeq(seq, i + 1, Len(seq))

\* mutant: room is made one entry early
MakeRoomEarly(entries) == IF Len(entries) + 1 >= lru_maxsize THEN Tail(entries) ELSE entries

\* lru_cache makes room for a new entry by dropping the least recently used one
MakeRoom(entries) == IF Len(entries) >= lru_maxsize THEN Tail(entries) ELSE entries

\* mutant: only a filer id that was found is kept
CacheFoundOnly(entries, ticker, answer) ==
    IF IsCached(entries, ticker)
    THEN LET i == IndexOf(entries, ticker)
         IN  [value |-> entries[i].value,
              cache |-> Append(RemoveAt(entries, i), entries[i]),
              network |-> FALSE]
    ELSE LET value == get_cik_from_ticker(ticker, answer)
         IN  [value |-> value,
              cache |-> IF value = None THEN entries
                        ELSE Append(MakeRoom(entries), [key |-> ticker, value |-> value]),
              network |-> TRUE]

\* [value, cache after the call, network: whether get_cik_from_ticker ran]
get_cached_cik(entries, ticker, answer) ==
    IF IsCached(entries, ticker)
    THEN LET i == IndexOf(entries, ticker)
         IN  [value |-> entries[i].value,
              cache |-> Append(RemoveAt(entries, i), entries[i]),
              network |-> FALSE]
    ELSE LET value == get_cik_from_ticker(ticker, answer)
         IN  [value |-> value,
              cache |-> Append(MakeRoom(entries), [key |-> ticker, value |-> value]),
              network |-> TRUE]

(***************************************************************************)
(* sec_data.get_filings_from_search_page                                   *)
(*                                                                         *)
(* A date is [y, m, d].  A 'YYYY-MM-DD' string is the sequence of its      *)
(* eight digits (the dashes sit at the same places in every such string);  *)
(* Python compares strings character by character.                         *)
(* A search page is [kind |-> "ok", rows |-> r] with r the <tr> rows of    *)
(* the tableFile2 table, the heading row first, or "no_table",             *)
(* "http_error", "exception".  A data row is [cells, date, acc]: the       *)
(* number of its <td> cells, the text of the fourth cell and what the      *)
(* Acc-no pattern finds in the third.                                      *)
(***************************************************************************)
Date(y, m, d) == [y |-> y, m |-> m, d |-> d]

\* the text of a date cell: a date that strptime accepts, or anything else
DateText(date) == [parses |-> TRUE, date |-> date]
NotADate == [parses |-> FALSE]

RECURSIVE Digits(_, _)
Digits(n, width) ==
    IF width = 0 THEN <<>> ELSE Append(Digits(n \div 10, width - 1), n % 10)

\* strftime('%Y-%m-%d')
strftime(date) == Digits(date.y, 4) \o Digits(date.m, 2) \o Digits(date.d, 2)

\* str <= str
RECURSIVE StrLeq(_, _)
StrLeq(a, b) ==
    IF a = <<>> THEN TRUE
    ELSE IF b = <<>> THEN FALSE
    ELSE IF Head(a) # Head(b) THEN Head(a) < Head(b)
    ELSE StrLeq(Tail(a), Tail(b))

\* str < str
StrLess(a, b) == StrLeq(a, b) /\ a # b

\* mutant: the range without its end points
StrictlyInRange(start_date, filing_date, end_date) ==
    StrLess(start_date, filing_date) /\ StrLess(filing_date, end_date)

\* line 60
InRange(start_date, filing_date, end_date) ==
    StrLeq(start_date, filing_date) /\ StrLeq(filing_date, end_date)

\* re.search(r'Acc-no:\s*([0-9-]+)', ...): a match with its group, or no match
AccNo(accession) == [matched |-> TRUE, accession |-> accession]
NoAccNo == [matched |-> FALSE]

HeadingRow == [cells |-> 0, date |-> NotADate, acc |-> NoAccNo]

\* lines 53-69: whether the row gives a filing
RowListed(row, start_date, end_date) ==
    /\ row.cells >= 4
    /\ row.date.parses
    /\ InRange(start_date, strftime(row.date.date), end_date)
    /\ row.acc.matched

\* lines 65-69
Candidate(row, filing_type) ==
    [accession |-> row.acc.accession, filing_date |-> strftime(row.date.date), type |-> filing_type]

RECURSIVE ListRows(_, _, _, _)
ListRows(rows, filing_type, start_date, end_date) ==
    IF rows = <<>> THEN <<>>
    ELSE (IF RowListed(Head(rows), start_date, end_date)
          THEN <<Candidate(Head(rows), filing_type)>> ELSE <<>>)
         \o ListRows(Tail(rows), filing_type, start_date, end_date)

get_filings_from_search_page(page, filing_type, start_date, end_date) ==
    IF page.kind # "ok" THEN <<>>
    ELSE ListRows(Tail(page.rows), filing_type, start_date, end_date)

(***************************************************************************)
(* sec_data.get_filing_details_from_index                                  *)
(*                                                                         *)
(* A string that the code takes apart is Text(p), p the sequence of its    *)
(* pieces (<<>>: the empty string).  An index page is [kind |-> "ok", period, tables] or  *)
(* "http_error", "exception".  period is the text next to the first        *)
(* "Period of Report" heading: None without heading or sibling, Text(<<>>) *)
(* for an empty one.  A table is [headed, rows]: whether a heading row named   *)
(* both the Document and the Type column, and the data rows below it.  A   *)
(* row is                                                                  *)
(* [wide, type, doc]: whether it reaches both columns, the text of its     *)
(* Type cell and its Document cell, which is                               *)
(*   [kind |-> "link", text |-> t, href |-> h]   an <a href=h>t</a>        *)
(*   [kind |-> "text", htm |-> n, first |-> w]   text only: n is the text  *)
(*       up to and including its first ".htm" (None if there is none), w   *)
(*       its first word (None for an empty text)                           *)
(***************************************************************************)
Text(pieces) == [text |-> pieces]

SecHost == <<"https://www.sec.gov">>

IxPrefix == "/ix?doc="

\* lines 125-128
DocumentUrl(href) ==
    LET href_url == IF href.text # <<>> /\ Head(href.text) = IxPrefix
                    THEN Tail(href.text) ELSE href.text
    IN  Text(IF href_url # <<>> /\ Head(href_url) = "/" THEN SecHost \o href_url
             ELSE href_url)

\* line 118: the type text a document row must carry
ExpectedType == "10-K"

\* lines 119-135: [document_name, document_url] of the matched row
MatchedDocument(doc_cell) ==
    IF doc_cell.kind = "link"
    THEN [document_name |-> doc_cell.text, document_url |-> DocumentUrl(doc_cell.href)]
    ELSE [document_name |-> IF doc_cell.htm # None THEN doc_cell.htm ELSE doc_cell.first,
          document_url |-> None]

NoDocument == [document_name |-> None, document_url |-> None]

\* mutant: only None counts as missing
IsNone(x) == x = None

\* not x, for a string or None
Falsy(x) == x = None \/ x = Text(<<>>)

\* lines 102-136: the first row of the table that reaches both columns and has
\* the expected type; the loop ends there
RECURSIVE FirstTypedRow(_)
FirstTypedRow(rows) ==
    IF rows = <<>> THEN NoDocument
    ELSE IF Head(rows).wide /\ Head(rows).type = ExpectedType
    THEN MatchedDocument(Head(rows).doc)
    ELSE FirstTypedRow(Tail(rows))

\* lines 97-138: tables are tried until one gives a document name
RECURSIVE FindDocument(_, _)
FindDocument(tables, found) ==
    IF tables = <<>> THEN found
    ELSE LET here == IF Head(tables).headed THEN FirstTypedRow(Head(tables).rows)
                     ELSE NoDocument
             now == IF here = NoDocument THEN found ELSE here
         IN  IF ~Falsy(now.document_name) THEN now
             ELSE FindDocument(Tail(tables), now)

\* line 141
ArchiveUrl(accession, document_name) ==
    Text(<<"https://www.sec.gov/Archives/edgar/data/", accession, "/">>
         \o document_name.text)

\* None, or the dict of lines 144-148
get_filing_details_from_index(page, accession) ==
    IF page.kind # "ok" THEN None
    ELSE LET document == FindDocument(page.tables, NoDocument)
         IN  IF ~Falsy(page.period) /\ ~Falsy(document.document_name)
             THEN [period_end |-> page.period,
                   url |-> IF Falsy(document.document_url)
                           THEN ArchiveUrl(accession, document.document_name)
                           ELSE document.document_url,
                   document_name |-> document.document_name]
             ELSE None

(***************************************************************************)
(* sec_data.get_filings_in_date_range.  archive is what the archive        *)
(* answers: archive.search[filing_type] the search page of the type,       *)
(* archive.index[accession] the index page of the filing.                  *)
(***************************************************************************)
\* lines 162-173 for one listed filing; st is [filings_dict, detail_calls]
AddListed(st, filing, archive) ==
    IF filing.accession \in DOMAIN st.filings_dict THEN st
    ELSE LET details == get_filing_details_from_index(archive.index[filing.accession],
                                                      filing.accession)
         IN  [filings_dict |->
                IF details = None THEN st.filings_dict
                ELSE Put(st.filings_dict, filing.accession,
                         [type |-> filing.type, filing_date |-> filing.filing_date,
                          period_end |-> details.period_end, url |-> details.url,
                          accession |-> filing.accession]),
              detail_calls |-> Append(st.detail_calls, filing.accession)]

RECURSIVE AddAllListed(_, _, _)
AddAllListed(st, filings, archive) ==
    IF filings = <<>> THEN st
    ELSE AddAllListed(AddListed(st, Head(filings), archive), Tail(filings), archive)

\* the loop of line 160 over the remaining types
RECURSIVE ListTypes(_, _, _, _, _)
ListTypes(st, filing_types, start_date, end_date, archive) ==
    IF filing_types = <<>> THEN st
    ELSE ListTypes(AddAllListed(st,
                                get_filings_from_search_page(
                                    archive.search[Head(filing_types)],
                                    Head(filing_types), start_date, end_date),
                                archive),
                   Tail(filing_types), start_date, end_date, archive)

\* [filings_dict, detail_calls]: the dict returned and the index pages requested
get_filings_in_date_range(start_date, end_date, filing_types, archive) ==
    ListTypes([filings_dict |-> EmptyDict, detail_calls |-> <<>>],
              filing_types, start_date, end_date, archive)

(***************************************************************************)
(* The archives get_filings_in_date_range is checked against               *)
(***************************************************************************)
MaxRows == 2

ListedDates ==
    {Date(2023, 12, 31), Date(2024, 1, 1), Date(2024, 2, 9), Date(2024, 2, 10)}

ListedAccessions == {AccessionNumbers[1], AccessionNumbers[2]}

ShortRow == [cells |-> 3, date |-> NotADate, acc |-> NoAccNo]

SearchRows ==
    {ShortRow} \cup
    {[cells |-> 4, date |-> d, acc |-> a] :
        d \in {DateText(x) : x \in ListedDates} \cup {NotADate},
        a \in {AccNo(x) : x \in ListedAccessions} \cup {NoAccNo}}

SearchPages ==
    {[kind |-> "ok", rows |-> <<HeadingRow>> \o r] : r \in SeqsUpTo(SearchRows, MaxRows)}
    \cup {[kind |-> k] : k \in {"no_table", "http_error", "exception"}}

PeriodText == Text(<<"2023-12-31">>)
DocumentName == Text(<<"doc.htm">>)
RootedHref == Text(<<"/", "Archives/edgar/data/doc.htm">>)
IxHref == Text(<<IxPrefix>> \o RootedHref.text)

DocCells ==
    {[kind |-> "link", text |-> DocumentName, href |-> RootedHref],
     [kind |-> "link", text |-> DocumentName, href |-> IxHref],
     [kind |-> "link", text |-> DocumentName, href |-> Text(<<>>)],
     [kind |-> "link", text |-> Text(<<>>), href |-> RootedHref],
     [kind |-> "text", htm |-> DocumentName, first |-> DocumentName],
     [kind |-> "text", htm |-> None, first |-> Text(<<"complete">>)],
     [kind |-> "text", htm |-> None, first |-> None]}

RowTypes == {"10-K", "10-K/A", "10-Q"}

NarrowRow == [wide |-> FALSE, type |-> "10-K", doc |-> CHOOSE c \in DocCells : TRUE]

DocRows ==
    {NarrowRow} \cup {[wide |-> TRUE, type |-> t, doc |-> c] : t \in RowTypes, c \in DocCells}

TypedRow(type) ==
    [wide |-> TRUE, type |-> type,
     doc |-> [kind |-> "link", text |-> DocumentName, href |-> RootedHref]]

\* tables to go before or after another one
SideTables ==
    {[headed |-> FALSE, rows |-> <<TypedRow("10-K")>>],
     [headed |-> TRUE, rows |-> <<TypedRow("10-K/A")>>],
     [headed |-> TRUE,
      rows |-> <<[wide |-> TRUE, type |-> "10-K",
                  doc |-> [kind |-> "link", text |-> Text(<<>>), href |-> RootedHref]]>>],
     [headed |-> TRUE, rows |-> <<TypedRow("10-K")>>]}

IndexTables ==
    {<<[headed |-> TRUE, rows |-> r]>> : r \in SeqsUpTo(DocRows, MaxRows)}
    \cup {<<a, b>> : a \in SideTables, b \in SideTables}

IndexPages ==
    {[kind |-> "ok", period |-> p, tables |-> t] :
        p \in {None, Text(<<>>), PeriodText}, t \in IndexTables}
    \cup {[kind |-> k] : k \in {"http_error", "exception"}}

GoodIndex ==
    [kind |-> "ok", period |-> PeriodText,
     tables |-> <<[headed |-> TRUE, rows |-> <<TypedRow("10-K")>>]>>]

OneRowPage(accessions) ==
    [kind |-> "ok",
     rows |-> <<HeadingRow>> \o
              [i \in 1..Len(accessions) |->
                  [cells |-> 4, date |-> DateText(Date(2024, 1, 1)), acc |-> AccNo(accessions[i])]]]

NoPage == [kind |-> "http_error"]

\* search pages of many shapes, every index page resolving
ListingEnvs ==
    {[start |-> a, end |-> b, filing_types |-> <<"10-K">>,
      archive |-> [search |-> [t \in {"10-K"} |-> p],
                   index |-> [x \in ListedAccessions |-> GoodIndex]]] :
        a \in ListedDates, b \in ListedDates, p \in SearchPages}

\* one listed filing, index pages of many shapes
DetailEnvs ==
    {[start |-> Date(2023, 12, 31), end |-> Date(2024, 2, 10), filing_types |-> <<t>>,
      archive |-> [search |-> [u \in {t} |-> OneRowPage(<<AccessionNumbers[1]>>)],
                   index |-> [x \in ListedAccessions |-> p]]] :
        t \in {"10-K", "10-Q"}, p \in IndexPages}

\* two requested types whose search pages may list the same filing
TwoTypeEnvs ==
    {[start |-> Date(2023, 12, 31), end |-> Date(2024, 2, 10),
      filing_types |-> <<"10-K", "10-Q">>,
      archive |-> [search |-> [t \in {"10-K", "10-Q"} |->
                                  IF t = "10-K" THEN OneRowPage(k) ELSE OneRowPage(q)],
                   index |-> [x \in ListedAccessions |->
                                  IF x = AccessionNumbers[1] THEN p ELSE GoodIndex]]] :
        k \in SeqsUpTo(ListedAccessions, MaxRows),
        q \in SeqsUpTo(ListedAccessions, MaxRows),
        p \in {GoodIndex, NoPage}}

DiscoverEnvs == ListingEnvs \cup DetailEnvs \cup TwoTypeEnvs

(***************************************************************************)
(* callbacks.validate_date_range; a date input is a string that strptime   *)
(* rejects or the day it names                                             *)
(***************************************************************************)
MaxRangeDays == 3650

BadDate == [parses |-> FALSE]
Day(n) == [parses |-> TRUE, day |-> n]

\* mutant: the length of the range is not looked at
ValidateOrderOnly(start_date, end_date) ==
    /\ start_date.parses
    /\ end_date.parses
    /\ start_date.day <= end_date.day

validate_date_range(start_date, end_date) ==
    /\ start_date.parses
    /\ end_date.parses
    /\ start_date.day <= end_date.day
    /\ end_date.day - start_date.day <= MaxRangeDays

DateRanges ==
    {<<BadDate, Day(0)>>, <<Day(10), Day(0)>>, <<Day(0), Day(10 * 366)>>,
     <<Day(0), Day(MaxRangeDays)>>}

FilingTypeChoices == {<<>>, <<"10-K">>}

(***************************************************************************)
(* update_filings_display, the button branch (lines 145-214)               *)
(***************************************************************************)
\* the primary document an index page names; the first filing's index page was
\* amended, so two discovery runs can see different documents for it
DocumentUrls(accession) ==
    IF accession = AccessionNumbers[1]
    THEN {"https://www.sec.gov/doc-a.htm", "https://www.sec.gov/doc-b.htm"}
    ELSE {"https://www.sec.gov/doc-a.htm"}

\* one entry of get_filings_in_date_range's result
FilingData(accession, url) ==
    [type |-> "10-K", filing_date |-> "2024-02-15", period_end |-> "2023-12-31",
     url |-> url, accession |-> accession]

\* the results get_filings_in_date_range can give for a filer
Discoveries(ticker) ==
    {[a \in DOMAIN f |-> FilingData(a, f[a])] :
        f \in UNION {{g \in [S -> UNION {DocumentUrls(a) : a \in S}] :
                        \A a \in S : g[a] \in DocumentUrls(a)} :
                     S \in SUBSET ArchiveOf(ticker)}}

\* the results of one discovery run over the companies of the store
Archives(companies) ==
    {f \in [DOMAIN companies -> UNION {Discoveries(t) : t \in Tickers}] :
        \A t \in DOMAIN companies : f[t] \in Discoveries(t)}

\* the symbol table's answers to the lookups that miss the cache
Answers(companies, entries) ==
    [{t \in DOMAIN companies : ~IsCached(entries, t)} -> {"found", "not_found"}]

\* mutant: every discovered filing is written
AlwaysNew(filings, accession) == TRUE

\* line 184
IsNewFiling(filings, accession) == accession \notin DOMAIN filings

\* lines 187-196
NewFilingRecord(filings, filing_data) ==
    [type |-> filing_data.type,
     filing_date |-> Get(filing_data, "filing_date", ""),
     url |-> filing_data.url,
     accession |-> filing_data.accession,
     period_end |-> Get(filing_data, "period_end", ""),
     extracted_data |->
        Get(Get(filings, filing_data.accession, EmptyDict), "extracted_data", EmptyDict)]

\* mutant: new_filings_count is never raised
CountNothing(filings, filings_dict) == 0

\* mutant: new_filings_count += 1 for every discovered filing
CountDiscovered(filings, filings_dict) == Cardinality(DOMAIN filings_dict)

\* new_filings_count after the loop of lines 183-196
NewFilingsCount(filings, filings_dict) ==
    Cardinality({a \in DOMAIN filings_dict : IsNewFiling(filings, a)})

\* mutant: only the filings of this discovery run are kept
OnlyDiscovered(filings, filings_dict) ==
    [a \in DOMAIN filings_dict |->
        IF IsNewFiling(filings, a) THEN NewFilingRecord(filings, filings_dict[a])
        ELSE filings[a]]

\* companies[ticker]['filings'] after the loop of lines 183-196
MergeFilings(filings, filings_dict) ==
    [a \in DOMAIN filings \cup DOMAIN filings_dict |->
        IF a \in DOMAIN filings_dict /\ IsNewFiling(filings, a)
        THEN NewFilingRecord(filings, filings_dict[a])
        ELSE filings[a]]

\* the companies of the store in iteration order
TickerOrder(companies) ==
    SelectSeq(SubSeq(TickerSymbols, 1, NumTickers), LAMBDA t : t \in DOMAIN companies)

\* the loop of lines 162-205 over the remaining tickers
RECURSIVE UpdateLoop(_, _, _, _)
UpdateLoop(st, tickers, answers, archive) ==
    IF tickers = <<>> THEN st
    ELSE LET ticker == Head(tickers)
             found == get_cached_cik(st.cache, ticker, Get(answers, ticker, "not_found"))
             filings == st.companies[ticker].filings
             filings_dict == archive[ticker]
             next ==
                IF found.value = None
                THEN [st EXCEPT !.cache = found.cache, !.lookups = @ + 1]
                ELSE IF filings_dict = EmptyDict
                THEN [st EXCEPT !.cache = found.cache, !.lookups = @ + 1,
                                !.listings = @ + 1]
                ELSE [companies |->
                        [st.companies EXCEPT ![ticker].filings =
                            MergeFilings(filings, filings_dict)],
                      cache |-> found.cache,
                      total_new_filings |->
                        st.total_new_filings + NewFilingsCount(filings, filings_dict),
                      already_present |->
                        st.already_present + Cardinality(DOMAIN filings_dict \cap DOMAIN filings),
                      lookups |-> st.lookups + 1,
                      listings |-> st.listings + 1]
         IN  UpdateLoop(next, Tail(tickers), answers, archive)

\* lines 157-158 and the loop
RunUpdate(companies, entries, answers, archive) ==
    UpdateLoop([companies |-> companies, cache |-> entries, total_new_filings |-> 0,
                already_present |-> 0, lookups |-> 0, listings |-> 0],
               TickerOrder(companies), answers, archive)

\* lookups and listings count the calls of get_cached_cik and of
\* get_filings_in_date_range the handler made
UpdateRejected(outcome) ==
    /\ last' = [op |-> "update_filings", outcome |-> outcome,
                total_new_filings |-> 0, already_present |-> 0, saves |-> 0,
                lookups |-> 0, listings |-> 0]
    /\ UNCHANGED <<store, persisted, cache>>

\* lines 153-154
RangeRejected(range) ==
    /\ last' = [op |-> "update_filings", outcome |-> "bad_range", range |-> range,
                total_new_filings |-> 0, already_present |-> 0, saves |-> 0,
                lookups |-> 0, listings |-> 0]
    /\ UNCHANGED <<store, persisted, cache>>

UpdateFilings ==
    /\ \E range \in DateRanges, filing_types \in FilingTypeChoices :
          IF store = EmptyDict THEN UpdateRejected("no_companies")
          ELSE IF filing_types = <<>> THEN UpdateRejected("no_filing_types")
          ELSE IF ~validate_date_range(range[1], range[2]) THEN RangeRejected(range)
          ELSE \E answers \in Answers(store, cache), archive \in Archives(store) :
                  LET done == RunUpdate(store, cache, answers, archive)
                      saved == done.total_new_filings > 0
                  IN  /\ store' = done.companies
                      /\ cache' = done.cache
                      /\ persisted' = IF saved THEN save_company_data(done.companies)
                                      ELSE persisted
                      /\ last' = [op |-> "update_filings", outcome |-> "merged",
                                  range |-> range,
                                  total_new_filings |-> done.total_new_filings,
                                  already_present |-> done.already_present,
                                  saves |-> IF saved THEN 1 ELSE 0,
                                  lookups |-> done.lookups, listings |-> done.listings]
    /\ UNCHANGED <<ext, lookup, listing, inflight>>

(***************************************************************************)
(* manage_companies (lines 61-115)                                         *)
(***************************************************************************)
\* what the user typed: nothing, or a symbol in some letter case
NoInput == [typed |-> "empty"]
TickerInputs == {NoInput} \cup {[typed |-> f, upper |-> t] : f \in {"upper", "lower"}, t \in Tickers}

\* the record of line 86, info being get_yahoo_info's dict with the cik added
NewCompany(ticker, cik) ==
    [info |-> [ticker |-> ticker, cik |-> cik], filings |-> EmptyDict]

\* the symbol table's answer to a lookup, asked only when the cache misses
AnswersFor(entries, ticker) ==
    IF IsCached(entries, ticker) THEN {"cached"} ELSE {"found", "not_found"}

AddRejected(outcome) ==
    /\ last' = [op |-> "add_company", outcome |-> outcome, saves |-> 0]
    /\ UNCHANGED <<store, persisted, cache>>

\* mutant: one of the two lookups is enough
EitherFound(yahoo, cik) == yahoo = "info" \/ cik # None

\* line 84: if info and cik
BothFound(yahoo, cik) == yahoo = "info" /\ cik # None

\* lines 82-91: yahoo is what get_yahoo_info did, answer what the symbol table
\* says; identity and cik record what the two lookups gave
AddLookedUp(ticker, yahoo, found) ==
    /\ cache' = found.cache
    /\ IF BothFound(yahoo, found.value)
       THEN /\ store' = Put(store, ticker, NewCompany(ticker, found.value))
            /\ persisted' = save_company_data(store')
            /\ last' = [op |-> "add_company", outcome |-> "added", saves |-> 1,
                        ticker |-> ticker, identity |-> yahoo = "info",
                        cik |-> found.value]
       ELSE /\ last' = [op |-> "add_company", outcome |-> "not_found", saves |-> 0,
                        ticker |-> ticker, identity |-> yahoo = "info",
                        cik |-> found.value]
            /\ UNCHANGED <<store, persisted>>

AddCompany ==
    /\ \E input \in TickerInputs :
          IF input = NoInput THEN AddRejected("no_input")
          ELSE IF input.upper \in DOMAIN store THEN AddRejected("exists")
          ELSE \/ AddRejected("error")
               \/ \E yahoo \in {"info", "none"}, answer \in AnswersFor(cache, input.upper) :
                     AddLookedUp(input.upper, yahoo,
                                 get_cached_cik(cache, input.upper, answer))
    /\ UNCHANGED <<ext, lookup, listing, inflight>>

RemoveCompanies ==
    /\ \E selected_tickers \in SUBSET Tickers :
          /\ store' = Without(store, selected_tickers)
          /\ persisted' = IF selected_tickers # {} THEN save_company_data(store')
                          ELSE persisted
          /\ last' = [op |-> "remove_companies",
                      outcome |-> IF selected_tickers # {} THEN "removed" ELSE "none_selected",
                      saves |-> IF selected_tickers # {} THEN 1 ELSE 0]
    /\ UNCHANGED <<cache, ext, lookup, listing, inflight>>

(***************************************************************************)
(* extract_oil_data_bulk (lines 230-306) and extract_single_filing         *)
(* (lines 315-392)                                                         *)
(***************************************************************************)
\* isinstance(x, (int, float)) and not math.isnan(x) and x > 0
IsValidNumber(x) == ~isnan(x) /\ x.v > 0

\* mutant: both facts required
HasBothValid(extracted_data) ==
    /\ IsValidNumber(Get(extracted_data, "proved_reserves", Num(0)))
    /\ IsValidNumber(Get(extracted_data, "annual_production", Num(0)))

\* lines 253-256
has_valid_data(extracted_data) ==
    \/ IsValidNumber(Get(extracted_data, "proved_reserves", Num(0)))
    \/ IsValidNumber(Get(extracted_data, "annual_production", Num(0)))

\* line 276: the test that picks extraction_count or failed_count
CountsAsExtracted(reserves, production) == ~isnan(reserves) /\ ~isnan(production)

ZeroData == [proved_reserves |-> Num(0), annual_production |-> Num(0)]

\* mutant: a failed attempt leaves the extracted facts of the filing as they were
AttemptedKeepsOnFailure(filing, result) ==
    IF result.success \/ "extracted_data" \notin DOMAIN filing
    THEN [k \in DOMAIN filing \cup {"extracted_data", "extraction_log"} |->
            CASE k = "extracted_data" ->
                    IF result.success
                    THEN [proved_reserves |-> Get(result.data, "proved_reserves", Num(0)),
                          annual_production |-> Get(result.data, "annual_production", Num(0))]
                    ELSE ZeroData
              [] k = "extraction_log" -> result.log
              [] OTHER -> filing[k]]
    ELSE [k \in DOMAIN filing \cup {"extraction_log"} |->
            IF k = "extraction_log" THEN result.log ELSE filing[k]]

\* the filing after lines 263-287 (bulk) and 350-381 (single)
Attempted(filing, result) ==
    [k \in DOMAIN filing \cup {"extracted_data", "extraction_log"} |->
        CASE k = "extracted_data" ->
                IF result.success
                THEN [proved_reserves |-> Get(result.data, "proved_reserves", Num(0)),
                      annual_production |-> Get(result.data, "annual_production", Num(0))]
                ELSE ZeroData
          [] k = "extraction_log" -> result.log
          [] OTHER -> filing[k]]

\* what extract() hands back to the callbacks
Outcome(env) == extract_oil_data_from_filing(env)

ExtractEvent(ticker, accession, result) ==
    [ev |-> "extract", ticker |-> ticker, accession |-> accession,
     success |-> result.success, data |-> result.data]

SaveEvent == [ev |-> "save"]

\* the (ticker, filing key) pairs of the store in iteration order
AllSlots ==
    [k \in 1..(NumTickers * NumFilings) |->
        <<TickerSymbols[((k - 1) \div NumFilings) + 1],
          AccessionNumbers[((k - 1) % NumFilings) + 1]>>]

Slots(companies) ==
    SelectSeq(AllSlots, LAMBDA s : s[1] \in DOMAIN companies
                                    /\ s[2] \in DOMAIN companies[s[1]].filings)

\* the filings bulk extraction will attempt
Pending(companies) ==
    {s \in Range(Slots(companies)) :
        ~has_valid_data(Get(companies[s[1]].filings[s[2]], "extracted_data", EmptyDict))}

\* lines 263 and 276: the attempt goes to extraction_count, otherwise to failed_count
Counted(result) ==
    result.success /\ CountsAsExtracted(result.data.proved_reserves,
                                        result.data.annual_production)

\* mutant: the store is saved after each attempted filing
SavePerFiling(st, ticker, filing_date, result) ==
    IF has_valid_data(Get(st.companies[ticker].filings[filing_date],
                          "extracted_data", EmptyDict))
    THEN [st EXCEPT !.skipped = @ \cup {<<ticker, filing_date>>}]
    ELSE [companies |->
            [st.companies EXCEPT ![ticker].filings[filing_date] =
                Attempted(st.companies[ticker].filings[filing_date], result)],
          extraction_count |-> st.extraction_count + (IF Counted(result) THEN 1 ELSE 0),
          failed_count |-> st.failed_count + (IF Counted(result) THEN 0 ELSE 1),
          events |-> st.events \o <<ExtractEvent(ticker, filing_date, result), SaveEvent>>,
          skipped |-> st.skipped]

\* mutant: an attempt that is not counted as extracted is not counted at all
CountSuccessesOnly(st, ticker, filing_date, result) ==
    IF has_valid_data(Get(st.companies[ticker].filings[filing_date],
                          "extracted_data", EmptyDict))
    THEN [st EXCEPT !.skipped = @ \cup {<<ticker, filing_date>>}]
    ELSE [companies |->
            [st.companies EXCEPT ![ticker].filings[filing_date] =
                Attempted(st.companies[ticker].filings[filing_date], result)],
          extraction_count |-> st.extraction_count + (IF Counted(result) THEN 1 ELSE 0),
          failed_count |-> st.failed_count,
          events |-> Append(st.events, ExtractEvent(ticker, filing_date, result)),
          skipped |-> st.skipped]

\* one pass of the inner loop body, lines 252-291; result is what extract()
\* returns for this filing if it is called
BulkStep(st, ticker, filing_date, result) ==
    IF has_valid_data(Get(st.companies[ticker].filings[filing_date],
                          "extracted_data", EmptyDict))
    THEN [st EXCEPT !.skipped = @ \cup {<<ticker, filing_date>>}]
    ELSE [companies |->
            [st.companies EXCEPT ![ticker].filings[filing_date] =
                Attempted(st.companies[ticker].filings[filing_date], result)],
          extraction_count |-> st.extraction_count + (IF Counted(result) THEN 1 ELSE 0),
          failed_count |-> st.failed_count + (IF Counted(result) THEN 0 ELSE 1),
          events |-> Append(st.events, ExtractEvent(ticker, filing_date, result)),
          skipped |-> st.skipped]

\* the loops of lines 246-291 over the remaining filings
RECURSIVE BulkLoop(_, _, _)
BulkLoop(st, slots, results) ==
    IF slots = <<>> THEN st
    ELSE BulkLoop(BulkStep(st, Head(slots)[1], Head(slots)[2], results[Head(slots)]),
                  Tail(slots), results)

\* the environments the callbacks' extract() calls are drawn from: the model
\* answers both facts, production alone, none, zeros, or no client is configured
Answering(reserves, production) ==
    [llm_available |-> TRUE,
     fetch |-> [kind |-> "ok",
                html |-> Doc(<<Verdict(TRUE, TRUE)>>, <<Verdict(FALSE, FALSE)>>)],
     reply |-> [kind |-> "text", whole |-> Facts(reserves, production),
                flat |-> <<>>, nested |-> <<>>]]

StoreEnvs ==
    {Answering(JNum(1500000000), JNum(50000000)),
     Answering(JNull, JNum(50000000)),
     Answering(JNull, JNull),
     Answering(JNum(0), JNum(0)),
     [llm_available |-> FALSE, fetch |-> [kind |-> "http_error"],
      reply |-> [kind |-> "failed"]]}

BulkExtract ==
    /\ IF store = EmptyDict
       THEN /\ last' = [op |-> "bulk_extract", outcome |-> "no_companies",
                        extraction_count |-> 0, failed_count |-> 0,
                        events |-> <<>>, skipped |-> {}, saves |-> 0]
            /\ UNCHANGED <<store, persisted>>
       ELSE \E envs \in [Pending(store) -> StoreEnvs] :
               LET done == BulkLoop([companies |-> store, extraction_count |-> 0,
                                     failed_count |-> 0, events |-> <<>>, skipped |-> {}],
                                    Slots(store),
                                    [s \in Pending(store) |-> Outcome(envs[s])])
               IN  /\ store' = done.companies
                   /\ persisted' = save_company_data(done.companies)
                   /\ last' = [op |-> "bulk_extract", outcome |-> "ran",
                               extraction_count |-> done.extraction_count,
                               failed_count |-> done.failed_count,
                               events |-> Append(done.events, SaveEvent),
                               skipped |-> done.skipped, saves |-> 1]
    /\ UNCHANGED <<cache, ext, lookup, listing, inflight>>

\* mutant: the single-filing path after the skip rule of the bulk path
SingleSkipsValid(filing, result) ==
    IF has_valid_data(Get(filing, "extracted_data", EmptyDict)) THEN filing
    ELSE Attempted(filing, result)

\* the filing after lines 346-381
Reextracted(filing, result) == Attempted(filing, result)

\* mutant: a rejected request still writes the file
RejectedButSaved(ticker, date, outcome) ==
    /\ last' = [op |-> "extract_single", ticker |-> ticker, accession |-> date,
                outcome |-> outcome, events |-> <<SaveEvent>>, had_valid |-> FALSE,
                saves |-> 1]
    /\ persisted' = save_company_data(store)
    /\ UNCHANGED store

SingleRejected(ticker, date, outcome) ==
    /\ last' = [op |-> "extract_single", ticker |-> ticker, accession |-> date,
                outcome |-> outcome, events |-> <<>>, had_valid |-> FALSE, saves |-> 0]
    /\ UNCHANGED <<store, persisted>>

\* lines 346-382: extract, store the outcome on the filing, save
SingleRan(ticker, date, filing, result) ==
    /\ store' = [store EXCEPT ![ticker].filings[date] = Reextracted(filing, result)]
    /\ persisted' = save_company_data(store')
    /\ last' = [op |-> "extract_single", ticker |-> ticker,
                accession |-> date, outcome |-> "ran",
                events |-> <<ExtractEvent(ticker, date, result), SaveEvent>>,
                had_valid |-> has_valid_data(Get(filing, "extracted_data", EmptyDict)),
                saves |-> 1]

ExtractSingle ==
    /\ \E ticker \in Tickers, date \in Accessions :
          IF ticker \notin DOMAIN store \/ date \notin DOMAIN store[ticker].filings
          THEN SingleRejected(ticker, date, "not_found")
          ELSE IF Get(store[ticker].filings[date], "url", "") = ""
          THEN SingleRejected(ticker, date, "no_url")
          ELSE \E env \in StoreEnvs :
                  SingleRan(ticker, date, store[ticker].filings[date], Outcome(env))
    /\ UNCHANGED <<cache, ext, lookup, listing, inflight>>

(***************************************************************************)
(* Spec: the callbacks on the company store, one at a time                 *)
(***************************************************************************)
NoExtract == [phase |-> "idle"]

Init ==
    /\ store = EmptyDict
    /\ persisted = EmptyDict
    /\ cache = <<>>
    /\ last = NoRun
    /\ ext = NoExtract
    /\ lookup = NoRun
    /\ listing = NoRun
    /\ inflight = <<>>

Next ==
    \/ AddCompany
    \/ RemoveCompanies
    \/ UpdateFilings
    \/ BulkExtract
    \/ ExtractSingle

Spec == Init /\ [][Next]_vars

(***************************************************************************)
(* SpecCache: the calls of get_cached_cik one process makes.  Tickers are  *)
(* numbered: HotTicker is the ticker under observation, the others are     *)
(* looked up for the first time in increasing order, and the latest of     *)
(* them may be looked up again.                                            *)
(***************************************************************************)
ExtraTickers == 2

HotTicker == 0
NoTicker == -1
OtherTickers == 1..(lru_maxsize + ExtraTickers)

\* lookup records the latest call: its ticker, the value returned, whether the
\* symbol table was requested; hot_value is what the most recent call for
\* HotTicker returned, hot_ever whether one of them succeeded and hot_asked
\* whether there was one; between counts
\* the distinct other tickers since the most recent call for HotTicker (for a call
\* for HotTicker: before it); fresh is the number of other tickers seen so far
CacheInit ==
    /\ store = EmptyDict
    /\ persisted = EmptyDict
    /\ last = NoRun
    /\ ext = NoExtract
    /\ cache = <<>>
    /\ lookup = [ticker |-> NoTicker, value |-> None, network |-> FALSE,
                 hot_value |-> None, hot_ever |-> FALSE, hot_asked |-> FALSE,
                 between |-> 0, fresh |-> 0]
    /\ listing = NoRun
    /\ inflight = <<>>

ResolveHot ==
    /\ \E answer \in AnswersFor(cache, HotTicker) :
          LET found == get_cached_cik(cache, HotTicker, answer)
          IN  /\ cache' = found.cache
              /\ lookup' = [ticker |-> HotTicker, value |-> found.value,
                            network |-> found.network,
                            hot_value |-> found.value,
                            hot_ever |-> lookup.hot_ever \/ found.value # None,
                            hot_asked |-> TRUE,
                            between |-> IF lookup.ticker = HotTicker THEN 0
                                        ELSE lookup.between,
                            fresh |-> lookup.fresh]
    /\ UNCHANGED <<store, persisted, last, ext, listing, inflight>>

\* a call for another ticker; first says whether the ticker is a new one
ResolveOther(ticker, first) ==
    LET found == get_cached_cik(cache, ticker, "found")
    IN  /\ cache' = found.cache
        /\ lookup' = [lookup EXCEPT
                        !.ticker = ticker, !.value = found.value,
                        !.network = found.network,
                        !.between = IF lookup.ticker = HotTicker THEN 1
                                    ELSE IF first THEN @ + 1 ELSE @,
                        !.fresh = IF first THEN @ + 1 ELSE @]
        /\ UNCHANGED <<store, persisted, last, ext, listing, inflight>>

ResolveNext ==
    /\ lookup.fresh + 1 \in OtherTickers
    /\ ResolveOther(lookup.fresh + 1, TRUE)

ResolveLatest ==
    /\ lookup.fresh \in OtherTickers
    /\ ResolveOther(lookup.fresh, FALSE)

CacheNext ==
    \/ ResolveHot
    \/ ResolveNext
    \/ ResolveLatest

SpecCache == CacheInit /\ [][CacheNext]_vars

C27_NotFoundIsCached ==
    [][(lookup'.ticker = HotTicker /\ lookup.hot_asked /\ lookup.hot_value = None
                                   /\ lookup'.between < 128) =>
          (~lookup'.network /\ lookup'.value = None)]_vars

\* resolve(T) answered NotFound from the cache after other tickers were looked up
C27_Witness ==
    /\ lookup.ticker = HotTicker
    /\ lookup.hot_asked
    /\ lookup.between > 1
    /\ ~lookup.network
    /\ lookup.value = None

(***************************************************************************)
(* SpecSession: the callbacks as the browser runs them.  company-store is  *)
(* a dcc.Store kept by the browser (ui_components.py 323); a click sends   *)
(* the store's value of that moment as State('company-store', 'data'), the *)
(* handler works on that copy, saves it and returns it, and the browser    *)
(* writes what comes back into the store.  Nothing in the handlers or the  *)
(* layout holds a click back while an earlier request is still answered,   *)
(* so up to MaxInFlight requests are under way, answered in any order.     *)
(***************************************************************************)
MaxInFlight == 2

SessionInit ==
    /\ store = EmptyDict
    /\ persisted = EmptyDict
    /\ cache = <<>>
    /\ last = NoRun
    /\ ext = NoExtract
    /\ lookup = NoRun
    /\ listing = NoRun
    /\ inflight = <<>>

\* the request goes out with the store as it is now
Send(request) ==
    /\ Len(inflight) < MaxInFlight
    /\ inflight' = Append(inflight, request)
    /\ UNCHANGED <<store, persisted, cache, last, ext, lookup, listing>>

ClickAdd ==
    \E ticker \in Tickers :
        Send([op |-> "add_company", ticker |-> ticker, store_data |-> store])

ClickRemove ==
    \E ticker \in Tickers :
        Send([op |-> "remove_companies", selected |-> {ticker}, store_data |-> store])

ClickBulk == Send([op |-> "bulk_extract", store_data |-> store])

\* the handler returned companies for company-store.data
Returned(i, companies, saved) ==
    /\ store' = companies
    /\ persisted' = IF saved THEN save_company_data(companies) ELSE persisted
    /\ inflight' = RemoveAt(inflight, i)
    /\ last' = [k \in DOMAIN inflight[i] \ {"store_data"} |-> inflight[i][k]]
    /\ UNCHANGED <<ext, lookup, listing>>

\* the handler returned no_update for company-store.data
NotUpdated(i) ==
    /\ inflight' = RemoveAt(inflight, i)
    /\ last' = [k \in DOMAIN inflight[i] \ {"store_data"} |-> inflight[i][k]]
    /\ UNCHANGED <<store, persisted, ext, lookup, listing>>

\* manage_companies, lines 75-93, on the copy the request carries
AnswerAdd(i) ==
    LET ticker == inflight[i].ticker
        companies == inflight[i].store_data
    IN  /\ inflight[i].op = "add_company"
        /\ IF ticker \in DOMAIN companies
           THEN Returned(i, companies, FALSE) /\ cache' = cache
           ELSE \/ NotUpdated(i) /\ cache' = cache
                \/ \E yahoo \in {"info", "none"}, answer \in AnswersFor(cache, ticker) :
                      LET found == get_cached_cik(cache, ticker, answer)
                      IN  /\ cache' = found.cache
                          /\ IF BothFound(yahoo, found.value)
                             THEN Returned(i, Put(companies, ticker,
                                                  NewCompany(ticker, found.value)), TRUE)
                             ELSE Returned(i, companies, FALSE)

\* manage_companies, lines 95-111
AnswerRemove(i) ==
    /\ inflight[i].op = "remove_companies"
    /\ Returned(i, Without(inflight[i].store_data, inflight[i].selected),
                inflight[i].selected # {})
    /\ cache' = cache

\* extract_oil_data_bulk, lines 239-302
AnswerBulk(i) ==
    LET companies == inflight[i].store_data
    IN  /\ inflight[i].op = "bulk_extract"
        /\ cache' = cache
        /\ IF companies = EmptyDict THEN Returned(i, companies, FALSE)
           ELSE \E envs \in [Pending(companies) -> StoreEnvs] :
                   Returned(i,
                            BulkLoop([companies |-> companies, extraction_count |-> 0,
                                      failed_count |-> 0, events |-> <<>>, skipped |-> {}],
                                     Slots(companies),
                                     [s \in Pending(companies) |-> Outcome(envs[s])]).companies,
                            TRUE)

\* any request under way can be the next one answered
SessionNext ==
    \/ ClickAdd
    \/ ClickRemove
    \/ ClickBulk
    \/ \E i \in 1..Len(inflight) : AnswerAdd(i)
    \/ \E i \in 1..Len(inflight) : AnswerRemove(i)
    \/ \E i \in 1..Len(inflight) : AnswerBulk(i)

SpecSession == SessionInit /\ [][SessionNext]_vars

\* C17: operations on the Company Store never interleave: each user-initiated
\* operation computes the store it writes from the store left by the last
\* completed operation, so no completed operation's update is ever lost by a
\* later write: a request's answer changes the store only by what the request
\* itself adds or removes.
C17_NoCompletedUpdateLost ==
    [][Len(inflight') < Len(inflight) =>
          /\ \A t \in DOMAIN store \ DOMAIN store' :
                last'.op = "remove_companies" /\ t \in last'.selected
          /\ \A t \in DOMAIN store' \ DOMAIN store :
                last'.op = "add_company" /\ t = last'.ticker]_vars

(***************************************************************************)
(* SpecDiscover: one call of get_filings_in_date_range                     *)
(***************************************************************************)
DiscoverInit ==
    /\ store = EmptyDict
    /\ persisted = EmptyDict
    /\ cache = <<>>
    /\ last = NoRun
    /\ ext = NoExtract
    /\ lookup = NoRun
    /\ inflight = <<>>
    /\ listing \in {[phase |-> "ready", env |-> e] : e \in DiscoverEnvs}

\* listed: what get_filings_from_search_page returned for each requested type
DiscoverCall ==
    /\ listing.phase = "ready"
    /\ listing' =
          [phase |-> "done", env |-> listing.env,
           listed |-> [t \in Range(listing.env.filing_types) |->
                          get_filings_from_search_page(
                              listing.env.archive.search[t], t,
                              strftime(listing.env.start), strftime(listing.env.end))],
           result |-> get_filings_in_date_range(
                          strftime(listing.env.start), strftime(listing.env.end),
                          listing.env.filing_types, listing.env.archive)]
    /\ UNCHANGED <<store, persisted, cache, last, ext, lookup, inflight>>

SpecDiscover == DiscoverInit /\ [][DiscoverCall]_vars

\* a date as a number that orders like the calendar
DayNo(date) == date.y * 10000 + date.m * 100 + date.d

RECURSIVE NumberOf(_)
NumberOf(digits) ==
    IF digits = <<>> THEN 0
    ELSE 10 * NumberOf(SubSeq(digits, 1, Len(digits) - 1)) + digits[Len(digits)]

\* the row has a filing date within [start, end] and an accession identifier
Qualifies(row, start, end) ==
    /\ row.cells >= 4
    /\ row.date.parses
    /\ row.acc.matched
    /\ DayNo(start) <= DayNo(row.date.date)
    /\ DayNo(row.date.date) <= DayNo(end)

\* the data rows of a search page, none if the page could not be read
ListingRows(page) == IF page.kind = "ok" THEN Tail(page.rows) ELSE <<>>

\* C11: listCandidates returns exactly the listing rows that have a parseable
\* filing date d and an accession identifier with startDate <= d <= endDate, both
\* bounds inclusive; other rows are skipped, and startDate > endDate gives the
\* empty sequence.
C11_ListsRowsInRange ==
    listing.phase = "done" =>
        \A t \in DOMAIN listing.listed :
            LET rows == SelectSeq(ListingRows(listing.env.archive.search[t]),
                                  LAMBDA r : Qualifies(r, listing.env.start, listing.env.end))
                got == listing.listed[t]
            IN  /\ Len(got) = Len(rows)
                /\ \A i \in 1..Len(got) :
                      /\ got[i].accession = rows[i].acc.accession
                      /\ NumberOf(got[i].filing_date) = DayNo(rows[i].date.date)
                      /\ got[i].type = t
                /\ DayNo(listing.env.start) > DayNo(listing.env.end) => got = <<>>

\* C11 witness: start and end on the same day, a row of that day listed and a row
\* without a parseable date skipped
C11_Witness ==
    /\ listing.phase = "done"
    /\ listing.env.start = listing.env.end
    /\ \E t \in DOMAIN listing.listed :
          /\ Len(listing.listed[t]) = 1
          /\ NumberOf(listing.listed[t][1].filing_date) = DayNo(listing.env.start)
          /\ \E i \in 1..Len(ListingRows(listing.env.archive.search[t])) :
                LET r == ListingRows(listing.env.archive.search[t])[i]
                IN  r.cells >= 4 /\ ~r.date.parses /\ r.acc.matched

\* the rows of the index page that sit below a Document/Type heading and reach
\* both columns
ListedDocuments(page) ==
    IF page.kind # "ok" THEN {}
    ELSE UNION {Range(page.tables[i].rows) :
                  i \in {k \in DOMAIN page.tables : page.tables[k].headed}}

\* the url a record gets when its document is taken from this row
UrlFrom(row, accession) ==
    LET document == MatchedDocument(row.doc)
    IN  IF Falsy(document.document_url)
        THEN ArchiveUrl(accession, document.document_name)
        ELSE document.document_url

\* C12: for every requested filing type T, the primary document of a filing of
\* type T is taken only from a document-listing row whose type text equals T
\* exactly; a row of another type is never matched.
C12_DocumentFromRowOfRequestedType ==
    listing.phase = "done" =>
        \A a \in DOMAIN listing.result.filings_dict :
            LET rec == listing.result.filings_dict[a]
            IN  \E row \in ListedDocuments(listing.env.archive.index[a]) :
                    /\ row.wide
                    /\ row.type = rec.type
                    /\ ~Falsy(MatchedDocument(row.doc).document_name)
                    /\ rec.url = UrlFrom(row, a)

\* a text that was found and is not empty
Located(x) == x # None /\ x.text # <<>>

\* some row below a Document/Type heading names a document
NamesDocument(page) ==
    \E row \in ListedDocuments(page) :
        row.wide /\ Located(MatchedDocument(row.doc).document_name)

\* C13: resolveDetails returns NotFound whenever the period-of-report field or
\* the primary-document name cannot be located, so every record in the map
\* returned by listFilingsInRange has a non-empty periodEndDate and a non-empty
\* documentUrl.
C13_NoPartialRecord ==
    listing.phase = "done" =>
        /\ \A a \in Range(listing.result.detail_calls) :
              LET page == listing.env.archive.index[a]
              IN  (page.kind # "ok" \/ ~Located(page.period) \/ ~NamesDocument(page))
                      => a \notin DOMAIN listing.result.filings_dict
        /\ \A a \in DOMAIN listing.result.filings_dict :
              /\ Located(listing.result.filings_dict[a].period_end)
              /\ Located(listing.result.filings_dict[a].url)

\* C13 witness: an index page that names the document but has an empty period
\* field, and the filing is not returned
C13_Witness ==
    /\ listing.phase = "done"
    /\ \E a \in Range(listing.result.detail_calls) :
          LET page == listing.env.archive.index[a]
          IN  /\ page.kind = "ok"
              /\ page.period = Text(<<>>)
              /\ \E row \in ListedDocuments(page) :
                    /\ row.wide
                    /\ row.type = ExpectedType
                    /\ Located(MatchedDocument(row.doc).document_name)
              /\ a \notin DOMAIN listing.result.filings_dict

\* C23: within one listFilingsInRange call, resolveDetails is invoked at most
\* once per filing key, also when the same key is listed under several requested
\* type codes, and the returned map has exactly one record per key.
C23_ResolvedOncePerKey ==
    listing.phase = "done" =>
        /\ \A a \in Range(listing.result.detail_calls) :
              Cardinality({i \in 1..Len(listing.result.detail_calls) :
                              listing.result.detail_calls[i] = a}) = 1
        /\ \A a \in DOMAIN listing.result.filings_dict :
              listing.result.filings_dict[a].accession = a

(***************************************************************************)
(* Properties of the callbacks (Spec)                                      *)
(***************************************************************************)
FactKeys == {"proved_reserves", "annual_production"}

\* the filing holds a number that is not NaN and is > 0 in one of its two facts
HoldsValidValue(filing) ==
    /\ "extracted_data" \in DOMAIN filing
    /\ \E k \in FactKeys \cap DOMAIN filing.extracted_data :
          ~isnan(filing.extracted_data[k]) /\ filing.extracted_data[k].v > 0

\* the extractor invocations the last operation made, as indices into its events
Invocations(run) == {i \in 1..Len(run.events) : run.events[i].ev = "extract"}

InvocationsFor(run, ticker, accession) ==
    {i \in Invocations(run) :
        run.events[i].ticker = ticker /\ run.events[i].accession = accession}

\* C1: for every filing whose extracted facts already hold a valid value (a number,
\* not NaN, > 0, in proved reserves or annual production), a bulk extraction does
\* not invoke the extractor and leaves the filing's record as it was; this is a
\* property of every bulk step, so of any number of repeated runs.
C1_BulkSkipsValid ==
    [][(last'.op = "bulk_extract" /\ last'.outcome = "ran") =>
          \A t \in DOMAIN store : \A a \in DOMAIN store[t].filings :
              HoldsValidValue(store[t].filings[a]) =>
                  /\ InvocationsFor(last', t, a) = {}
                  /\ t \in DOMAIN store' /\ a \in DOMAIN store'[t].filings
                  /\ store'[t].filings[a] = store[t].filings[a]]_vars

\* C1 witness: a bulk run that skipped a filing holding one valid fact and one NaN
\* while it invoked the extractor for another filing
C1_Witness ==
    /\ last.op = "bulk_extract" /\ last.outcome = "ran"
    /\ Invocations(last) # {}
    /\ \E s \in last.skipped :
          /\ isnan(store[s[1]].filings[s[2]].extracted_data.proved_reserves)
          /\ HoldsValidValue(store[s[1]].filings[s[2]])

\* C2: when update-filings merges discovered filings, every filing key already
\* present keeps its whole record unchanged, and every newly inserted key gets a
\* record with empty extracted facts.
C2_MergeKeepsExisting ==
    [][(last'.op = "update_filings" /\ last'.outcome = "merged") =>
          \A t \in DOMAIN store :
              /\ t \in DOMAIN store'
              /\ \A a \in DOMAIN store[t].filings :
                    /\ a \in DOMAIN store'[t].filings
                    /\ store'[t].filings[a] = store[t].filings[a]
              /\ \A a \in DOMAIN store'[t].filings \ DOMAIN store[t].filings :
                    store'[t].filings[a].extracted_data = EmptyDict]_vars

\* C2 witness: a merge that inserted one filing next to two rediscovered filings,
\* both of which carry extraction results
C2_Witness ==
    /\ last.op = "update_filings" /\ last.outcome = "merged"
    /\ last.total_new_filings = 1
    /\ last.already_present = 2
    /\ Cardinality({s \in Range(Slots(store)) :
                      "extraction_log" \in DOMAIN store[s[1]].filings[s[2]]}) = 2

\* the filing keys of each company
FilingKeys(companies) == [t \in DOMAIN companies |-> DOMAIN companies[t].filings]

\* C3: discovery is idempotent: merging the same discovery result into the store
\* twice gives the same filing records per company as merging it once; the second
\* merge inserts zero records.
C3_DiscoveryIdempotent ==
    \A answers \in Answers(store, cache), archive \in Archives(store) :
        LET once == RunUpdate(store, cache, answers, archive)
            twice == RunUpdate(once.companies, once.cache, answers, archive)
        IN  /\ twice.companies = once.companies
            /\ FilingKeys(twice.companies) = FilingKeys(once.companies)
            /\ twice.total_new_filings = 0

\* C3 witness: a merge of filings that were all in the store already
C3_Witness ==
    /\ last.op = "update_filings" /\ last.outcome = "merged"
    /\ last.total_new_filings = 0
    /\ last.already_present > 1

\* C4: extractSingle on an existing filing with a document URL always invokes the
\* extractor, also when the filing holds valid facts, and replaces the filing's
\* extracted facts with what this attempt gave: the facts of a successful attempt,
\* and no valid value after a failed one.
C4_SingleAlwaysExtracts ==
    (last.op = "extract_single" /\ last.outcome = "ran") =>
        /\ Cardinality(Invocations(last)) = 1
        /\ Cardinality(InvocationsFor(last, last.ticker, last.accession)) = 1
        /\ \A i \in Invocations(last) :
              LET stored == store[last.ticker].filings[last.accession]
              IN  IF last.events[i].success
                  THEN stored.extracted_data = last.events[i].data
                  ELSE ~HoldsValidValue(stored)

\* C4 witness: a filing that held valid facts was re-extracted and the attempt failed
C4_Witness ==
    /\ last.op = "extract_single" /\ last.outcome = "ran"
    /\ last.had_valid
    /\ \E i \in Invocations(last) : ~last.events[i].success

\* C5: a filing whose extraction was attempted (bulk or single) and failed or found
\* nothing stores NaN for both facts, never numeric zero.  (Stated as claimed; the
\* failure branches of lines 282-285 and 376-379 store zeros.)
C5_FailedAttemptStoresNaN ==
    (last.op \in {"bulk_extract", "extract_single"} /\ last.outcome = "ran") =>
        \A i \in Invocations(last) :
            (~last.events[i].success \/ last.events[i].data = NaNData) =>
                store[last.events[i].ticker].filings[last.events[i].accession].extracted_data
                    = NaNData

\* an attempt that succeeded with a valid number in reserves or production
GaveValidNumber(event) ==
    /\ event.success
    /\ \E k \in FactKeys : ~isnan(event.data[k]) /\ event.data[k].v > 0

\* C6: in a bulk extraction each attempted filing whose extraction succeeds with at
\* least one valid number increments the success counter, and each one that
\* succeeds with no valid number, or fails, increments the failure counter.
\* (Stated as claimed; line 276 asks for both facts and only for not-NaN.)
C6_BulkCounters ==
    (last.op = "bulk_extract" /\ last.outcome = "ran") =>
        /\ last.extraction_count =
              Cardinality({i \in Invocations(last) : GaveValidNumber(last.events[i])})
        /\ last.failed_count =
              Cardinality({i \in Invocations(last) : ~GaveValidNumber(last.events[i])})

\* C14: for a non-empty store, bulkExtract writes the persisted store exactly
\* once per invocation, after the last filing has been processed; no write
\* happens between two per-filing extractions of the same batch.
C14_BulkSavesOnceAtEnd ==
    (last.op = "bulk_extract" /\ last.outcome = "ran") =>
        /\ Len(last.events) >= 1
        /\ last.events[Len(last.events)] = SaveEvent
        /\ \A i \in 1..(Len(last.events) - 1) : last.events[i].ev = "extract"
        /\ last.saves = 1

\* C14 witness: a batch that attempted two filings and then saved
C14_Witness ==
    /\ last.op = "bulk_extract"
    /\ last.outcome = "ran"
    /\ Len(last.events) = 3
    /\ last.events[1].ev = "extract"
    /\ last.events[2].ev = "extract"
    /\ last.events[3] = SaveEvent

InvalidRange(range) ==
    \/ ~range[1].parses
    \/ ~range[2].parses
    \/ range[1].day > range[2].day
    \/ range[2].day - range[1].day >= 10 * 366

\* C16: update-filings with an invalid date range (unparseable date, start after
\* end, or a span above 10 years) is rejected with a message before any resolver
\* or archive request is made, and the store is left unchanged.
C16_InvalidRangeRejected ==
    [][last'.op = "update_filings" =>
          /\ last'.outcome = "merged" => ~InvalidRange(last'.range)
          /\ last'.outcome # "merged" =>
                /\ last'.lookups = 0
                /\ last'.listings = 0
                /\ store' = store
                /\ cache' = cache
                /\ persisted' = persisted]_vars

\* C16 witness: a store with a company, a range above 10 years, rejected
C16_Witness ==
    /\ last.op = "update_filings"
    /\ last.outcome = "bad_range"
    /\ store # EmptyDict
    /\ last.range[1].parses
    /\ last.range[2].parses
    /\ last.range[2].day - last.range[1].day >= 10 * 366
    /\ last.lookups = 0
    /\ last.listings = 0

\* C18: for every company that stays in the store, across any sequence of
\* add-company, update-filings, bulkExtract and extractSingle operations the set
\* of its filing keys never shrinks; a filing record disappears only when its
\* company is removed by ticker.
C18_FilingKeysNeverShrink ==
    [][/\ \A t \in DOMAIN store \cap DOMAIN store' :
             DOMAIN store[t].filings \subseteq DOMAIN store'[t].filings
       /\ last'.op # "remove_companies" => DOMAIN store \subseteq DOMAIN store']_vars

\* C18 witness: a company whose first filing was extracted before a later
\* update run found the filing again and added a second one
C18_Witness ==
    /\ last.op = "update_filings"
    /\ last.outcome = "merged"
    /\ last.total_new_filings = 1
    /\ last.already_present = 1
    /\ \E t \in DOMAIN store :
          /\ Cardinality(DOMAIN store[t].filings) = 2
          /\ \E a \in DOMAIN store[t].filings :
                "extraction_log" \in DOMAIN store[t].filings[a]

\* C19: add-company creates a CompanyRecord (with the resolved filerId and an
\* empty filings map) only when both the identity lookup and the identifier
\* resolution succeed; when either fails, or the upper-cased ticker is already in
\* the store, the store is left unchanged and nothing is persisted.
C19_AddsOnlyWhenBothResolve ==
    [][last'.op = "add_company" =>
          IF last'.outcome = "added"
          THEN /\ last'.identity
               /\ last'.cik # None
               /\ last'.ticker \notin DOMAIN store
               /\ DOMAIN store' = DOMAIN store \cup {last'.ticker}
               /\ \A t \in DOMAIN store : store'[t] = store[t]
               /\ store'[last'.ticker].info.cik = last'.cik
               /\ store'[last'.ticker].filings = EmptyDict
          ELSE /\ store' = store
               /\ persisted' = persisted
               /\ last'.saves = 0]_vars

\* C19 witness: the identity lookup succeeded, the identifier was not resolved,
\* and the store with its one company stayed as it was
C19_Witness ==
    /\ last.op = "add_company"
    /\ last.outcome = "not_found"
    /\ last.identity
    /\ last.cik = None
    /\ last.ticker \notin DOMAIN store
    /\ Cardinality(DOMAIN store) = 1
    /\ persisted = store

\* the single-filing extraction ran and the extractor reported a failure
SingleFailed ==
    /\ last.op = "extract_single" /\ last.outcome = "ran"
    /\ Len(last.events) > 0
    /\ last.events[1].ev = "extract" /\ ~last.events[1].success

BothZero(facts) ==
    /\ DOMAIN facts = {"proved_reserves", "annual_production"}
    /\ \A k \in DOMAIN facts : ~isnan(facts[k]) /\ facts[k].v = 0

\* C26: extractSingle whose extraction fails stores the facts (0, 0) on the filing
\* and persists them, also when the filing held valid facts before.
C26_FailedSingleStoresZeros ==
    SingleFailed =>
        /\ BothZero(store[last.ticker].filings[last.accession].extracted_data)
        /\ last.events[Len(last.events)].ev = "save"
        /\ BothZero(persisted[last.ticker].filings[last.accession].extracted_data)

\* a filing that held valid facts was re-extracted, the attempt failed, and the
\* store and the saved file hold zeros for it
C26_Witness ==
    /\ SingleFailed
    /\ last.had_valid
    /\ BothZero(store[last.ticker].filings[last.accession].extracted_data)
    /\ BothZero(persisted[last.ticker].filings[last.accession].extracted_data)

\* C28: in one bulkExtract run the extractor is invoked exactly once for each
\* filing that lacks a valid value and not at all for any other filing, the
\* success counter plus the failure counter equals the number of extractor
\* invocations, and a failed attempt does not keep the filings after it from
\* being attempted.
C28_OneInvocationPerPendingFiling ==
    [][(last'.op = "bulk_extract" /\ last'.outcome = "ran") =>
          /\ \A t \in DOMAIN store : \A a \in DOMAIN store[t].filings :
                Cardinality(InvocationsFor(last', t, a)) =
                    IF HoldsValidValue(store[t].filings[a]) THEN 0 ELSE 1
          /\ \A i \in Invocations(last') :
                /\ last'.events[i].ticker \in DOMAIN store
                /\ last'.events[i].accession
                       \in DOMAIN store[last'.events[i].ticker].filings
          /\ last'.extraction_count + last'.failed_count
                 = Cardinality(Invocations(last'))]_vars

\* a bulk run whose first attempt failed went on to attempt a second filing,
\* skipped a filing that held a valid value, and counted both attempts
C28_Witness ==
    /\ last.op = "bulk_extract" /\ last.outcome = "ran"
    /\ Cardinality(Invocations(last)) = 2
    /\ ~last.events[1].success
    /\ last.events[2].ev = "extract"
    /\ last.skipped # {}
    /\ last.extraction_count + last.failed_count = 2

(***************************************************************************)
(* SpecExtract: one call of extract_oil_data_from_filing                   *)
(***************************************************************************)
ExtractInit ==
    /\ store = EmptyDict
    /\ persisted = EmptyDict
    /\ cache = <<>>
    /\ last = NoRun
    /\ lookup = NoRun
    /\ listing = NoRun
    /\ inflight = <<>>
    /\ ext \in {[phase |-> "ready", env |-> e] : e \in ExtractEnvs}

ExtractCall ==
    /\ ext.phase = "ready"
    /\ ext' = [phase |-> "done", env |-> ext.env,
               result |-> extract_oil_data_from_filing(ext.env)]
    /\ UNCHANGED <<store, persisted, cache, last, lookup, listing, inflight>>

SpecExtract == ExtractInit /\ [][ExtractCall]_vars

\* the narrowed excerpt of a category has something in it
SomeMatch(html, category) ==
    \/ \E i \in 1..Len(html.tables) : html.tables[i][category]
    \/ \E i \in 1..Len(html.elems) : html.elems[i][category]

\* the model was asked and answered with a text
ResponseObtained ==
    /\ ext.phase = "done"
    /\ ext.result.llm_calls = 1
    /\ ext.env.reply.kind = "text"

Candidates(reply) == {reply.whole} \cup Range(reply.flat) \cup Range(reply.nested)

IsObjectWithKeys(c) == c.t = "obj" /\ RequiredKeys \subseteq DOMAIN c.o

\* C7: extract() reports success=TRUE whenever a response was obtained and a JSON
\* object with both required keys was parsed from it, whatever the two values are;
\* {null, 50000000} gives success with NaN / 5e7 and {null, null} gives success
\* with NaN / NaN.  (Stated as claimed; an integer above the float range refutes it.)
C7_SuccessWheneverObjectParsed ==
    ResponseObtained =>
        LET parsed == extract_json_from_response(ext.env.reply, RequiredKeys)
        IN  /\ (~parsed.raised /\ parsed.data # None /\ parsed.data.t = "obj")
                => ext.result.success
            /\ ext.env.reply.whole = Facts(JNull, JNum(50000000))
                => /\ ext.result.success
                   /\ ext.result.data =
                        [proved_reserves |-> NaN, annual_production |-> Num(50000000)]
            /\ ext.env.reply.whole = Facts(JNull, JNull)
                => ext.result.success /\ ext.result.data = NaNData

\* C8: when the response holds no parseable JSON object with both required keys,
\* extract() returns success=FALSE with both facts NaN.
C8_NoObjectMeansFailure ==
    (ResponseObtained /\ \A c \in Candidates(ext.env.reply) : ~IsObjectWithKeys(c))
        => ~ext.result.success /\ ext.result.data = NaNData

\* C8 witness: a response whose regex matches parse but lack a key
C8_Witness ==
    /\ ResponseObtained
    /\ \A c \in Candidates(ext.env.reply) : ~IsObjectWithKeys(c)
    /\ \E c \in Range(ext.env.reply.flat) : c.t = "obj"
    /\ ~ext.result.success

\* the three conditions under which the model may be asked
MayAskModel(env) ==
    /\ env.llm_available
    /\ env.fetch.kind = "ok"
    /\ SomeMatch(env.fetch.html, "reserves") \/ SomeMatch(env.fetch.html, "production")

\* C9: the model is invoked only when a client is available, the HTML was fetched
\* with status 200 and one of the two excerpts is non-empty; otherwise extract()
\* returns success=FALSE with NaN facts, asks the model nothing and fetches at most once.
C9_ModelOnlyWithContent ==
    ext.phase = "done" =>
        /\ ext.result.llm_calls > 0 => MayAskModel(ext.env)
        /\ ~MayAskModel(ext.env) =>
              /\ ~ext.result.success
              /\ ext.result.data = NaNData
              /\ ext.result.llm_calls = 0
        /\ ext.result.fetches <= 1
        /\ ext.result.llm_calls <= 1

\* C9 witness: fetched with 200, nothing matched, the model was not asked
C9_Witness ==
    /\ ext.phase = "done"
    /\ ext.env.llm_available
    /\ ext.env.fetch.kind = "ok"
    /\ ext.env.fetch.html.tables # <<>>
    /\ ~MayAskModel(ext.env)
    /\ ext.result.fetches = 1
    /\ ext.result.llm_calls = 0


\* the lines every call logs before it can fail at the given step
LoggedUpTo(env) ==
    IF ~env.llm_available THEN <<"LLM not available">>
    ELSE IF env.fetch.kind # "ok" THEN <<"Downloading">>
    ELSE <<"Downloading", "Downloaded", "Parsing HTML">>

IsPrefix(a, b) == Len(a) <= Len(b) /\ SubSeq(b, 1, Len(a)) = a

\* C20: extract(filingUrl) never raises to its caller: for every outcome (model
\* unavailable, fetch failure, empty excerpts, unparseable response, internal
\* exception) it returns a result carrying a success flag, the two facts and the
\* log text accumulated up to that point.
C20_AlwaysReturnsLoggedResult ==
    ext.phase = "done" =>
        /\ ext.result.success \in BOOLEAN
        /\ DOMAIN ext.result.data = RequiredKeys
        /\ \A k \in RequiredKeys : ext.result.data[k].isnan \in BOOLEAN
        /\ IsPrefix(LoggedUpTo(ext.env), ext.result.log)
        /\ ext.result.llm_calls = 1 =>
              \E i \in 1..Len(ext.result.log) : ext.result.log[i] = "Querying LLM"
        /\ ~ext.result.success =>
              \A k \in RequiredKeys : isnan(ext.result.data[k])
        /\ (~ext.env.llm_available \/ ext.env.fetch.kind # "ok") => ~ext.result.success

\* C20 witness: the answer was a bare number, the key test raised, and the
\* result carries the lines logged before that and the exception line
C20_Witness ==
    /\ ext.phase = "done"
    /\ ext.env.reply.kind = "text"
    /\ ext.env.reply.whole.t = "scalar"
    /\ ext.result.llm_calls = 1
    /\ ~ext.result.success
    /\ Len(ext.result.log) > 4
    /\ ext.result.log[Len(ext.result.log)] = "Exception"
    /\ ext.result.log[Len(ext.result.log) - 1] = "LLM responded"

\* the candidates in the order they are tried
CandidateSeq(reply) == <<reply.whole>> \o reply.flat \o reply.nested

\* the candidate parsed and every required key is in it
ContainsKeys(c) ==
    \/ c.t = "obj" /\ RequiredKeys \subseteq DOMAIN c.o
    \/ c.t \in {"list", "str"} /\ RequiredKeys \subseteq c.has

\* C21: extract_json_from_response with required keys returns the first
\* candidate, in the order whole response, single-level matches, nested
\* matches, that parses and contains every required key; a candidate lacking a
\* key is passed over, and when no candidate qualifies the function returns no
\* result (not an exception).
C21_FirstQualifyingCandidate ==
    ResponseObtained =>
        LET cands == CandidateSeq(ext.env.reply)
            parsed == extract_json_from_response(ext.env.reply, RequiredKeys)
            hits == {i \in 1..Len(cands) : ContainsKeys(cands[i])}
        IN  /\ ~parsed.raised
            /\ IF hits = {} THEN parsed.data = None
               ELSE parsed.data = cands[CHOOSE i \in hits : \A j \in hits : i <= j]
            /\ hits = {} =>
                  \E i \in 1..Len(ext.result.log) :
                      ext.result.log[i] = "Failed to parse JSON from LLM response"

\* what a field's JSON value is to become: the float of a number or of a numeric
\* string, NaN for null and for anything float() cannot convert
ExpectedFloat(raw) == IF raw.j \in {"num", "numstr"} THEN Num(raw.v) ELSE NaN

\* C22: each of the two fields of the parsed JSON is coerced independently: null
\* gives NaN, a numeric-like value its float, a non-coercible value NaN without
\* failing the extraction; the coercion of one field never changes the other.
C22_FieldsCoercedIndependently ==
    ResponseObtained =>
        LET parsed == extract_json_from_response(ext.env.reply, RequiredKeys)
        IN  (~parsed.raised /\ parsed.data # None /\ parsed.data.t = "obj") =>
                /\ ext.result.success
                /\ \A k \in RequiredKeys :
                      parsed.data.o[k] # JBigInt =>
                          ext.result.data[k] = ExpectedFloat(parsed.data.o[k])

(***************************************************************************)
(* SpecNarrow: one call of extract_oil_content on a parsed page            *)
(***************************************************************************)
NarrowInit ==
    /\ store = EmptyDict
    /\ persisted = EmptyDict
    /\ cache = <<>>
    /\ last = NoRun
    /\ lookup = NoRun
    /\ listing = NoRun
    /\ inflight = <<>>
    /\ ext \in {[phase |-> "page", page |-> p] : p \in NarrowPages}

NarrowCall ==
    /\ ext.phase = "page"
    /\ ext' = [phase |-> "narrowed", page |-> ext.page,
               content |-> extract_oil_content(Classified(ext.page))]
    /\ UNCHANGED <<store, persisted, cache, last, lookup, listing, inflight>>

SpecNarrow == NarrowInit /\ [][NarrowCall]_vars

\* some word of the text holds one of the tokens (case-insensitively)
Mentions(text, tokens) == \E i \in 1..Len(text) : text[i].tokens \cap tokens # {}

\* the three keyword groups of a reserves table
ReservesGroups(text) ==
    /\ Mentions(text, {"reserve"})
    /\ Mentions(text, {"oil", "crude", "barrel", "bbl", "mmbbl", "petroleum"})
    /\ Mentions(text, {"proved", "proven", "total"})

HasDigit(text) == \E i \in 1..Len(text) : text[i].digit

InReservesExcerpt(i) == i \in Range(ext.content.reserves.tables)

InProductionExcerpt(i) == i \in Range(ext.content.production.tables)

\* C24 as stated: a table is in the reserves excerpt exactly when its text
\* holds "reserve", an oil-unit token and one of proved/proven/total.
C24_ClassifiedByThreeGroups ==
    ext.phase = "narrowed" =>
        \A i \in 1..Len(ext.page.tables) :
            InReservesExcerpt(i) <=> ReservesGroups(ext.page.tables[i])

\* C24 amended: a table is in the reserves excerpt exactly when its text
\* holds the three keyword groups and, in addition, a decimal digit and at
\* least 20 characters; the table "Total proved crude oil reserves: 1,234
\* MMBbl" is in it and "widget sales: 1,234 units" is not; being in the
\* reserves excerpt neither requires nor excludes being in the production
\* excerpt.
C24_ClassifiedByGroupsDigitAndLength ==
    ext.phase = "narrowed" =>
        \A i \in 1..Len(ext.page.tables) :
            LET text == ext.page.tables[i]
            IN  /\ InReservesExcerpt(i) <=>
                       (ReservesGroups(text) /\ HasDigit(text) /\ Length(text) >= 20)
                /\ text = TotalProvedText => InReservesExcerpt(i)
                /\ text = WidgetSalesText => ~InReservesExcerpt(i)
                /\ text = BothText => InReservesExcerpt(i) /\ InProductionExcerpt(i)
                /\ text = ProductionText => ~InReservesExcerpt(i) /\ InProductionExcerpt(i)

\* a page was narrowed that holds a table in both excerpts, the table of the
\* claim's example, and a table with the three groups that is left out
C24_Witness ==
    /\ ext.phase = "narrowed"
    /\ Len(ext.page.tables) = 2
    /\ ext.page.tables[1] = BothText
    /\ InReservesExcerpt(1) /\ InProductionExcerpt(1)
    /\ ext.page.tables[2] = TotalProvedText
    /\ InReservesExcerpt(2) /\ ~InProductionExcerpt(2)

MatchedTables(category) ==
    {i \in 1..Len(ext.page.tables) : ClassifyTable(ext.page.tables[i])[category]}

MatchedParagraphs(category) ==
    {i \in 1..Len(ext.page.elems) : ClassifyElement(ext.page.elems[i])[category]}

\* the positions s lists are in document order, none twice
InDocumentOrder(s) == \A i \in 1..Len(s), j \in 1..Len(s) : i < j => s[i] < s[j]

\* C25: each excerpt holds all matched tables of its category, in document
\* order, followed by at most 20 matched paragraphs, which are the first 20
\* matches in document order; a later matching paragraph is not in it.
C25_AllTablesThenFirstTwentyParagraphs ==
    ext.phase = "narrowed" =>
        \A category \in {"reserves", "production"} :
            LET excerpt == ext.content[category]
                matched == MatchedParagraphs(category)
            IN  /\ InDocumentOrder(excerpt.tables)
                /\ Range(excerpt.tables) = MatchedTables(category)
                /\ InDocumentOrder(excerpt.paragraphs)
                /\ Range(excerpt.paragraphs) \subseteq matched
                /\ Len(excerpt.paragraphs) <= 20
                /\ Cardinality(matched) <= 20 => Range(excerpt.paragraphs) = matched
                /\ Cardinality(matched) > 20 => Len(excerpt.paragraphs) = 20
                /\ \A i \in matched \ Range(excerpt.paragraphs) :
                       \A j \in Range(excerpt.paragraphs) : j < i

\* a page with two matched tables and more than 20 matching paragraphs was
\* narrowed: the excerpt has both tables and 20 paragraphs, and the matching
\* paragraphs after them are left out
C25_Witness ==
    /\ ext.phase = "narrowed"
    /\ Cardinality(MatchedParagraphs("reserves")) > 20
    /\ Len(ext.content.reserves.paragraphs) = 20
    /\ Len(ext.content.reserves.tables) = 2
    /\ \E i \in MatchedParagraphs("reserves") :
           i \notin Range(ext.content.reserves.paragraphs)
    /\ \E i \in 1..20 : i \notin MatchedParagraphs("reserves")

(***************************************************************************)
(* SpecSingle: extract_single_filing on a store as load_company_data gave  *)
(* it to the company store (ui_components.py 323), which can hold filings  *)
(* written by hand or by an earlier version: without a url, with an empty  *)
(* one, with or without extracted facts.                                   *)
(***************************************************************************)
LoadedFilings ==
    {[type |-> "10-K", url |-> "https://www.sec.gov/doc-a.htm"],
     [type |-> "10-K", url |-> "https://www.sec.gov/doc-a.htm",
      extracted_data |-> [proved_reserves |-> Num(1500000000),
                          annual_production |-> Num(50000000)]],
     [type |-> "10-K", url |-> ""],
     [type |-> "10-K"]}

LoadedStores ==
    {EmptyDict}
        \cup {Put(EmptyDict, t, [info |-> [ticker |-> t, cik |-> CikOf(t)], filings |-> f]) :
                t \in Tickers,
                f \in UNION {[S -> LoadedFilings] :
                                S \in SUBSET {AccessionNumbers[1], AccessionNumbers[2]}}}

SingleInit ==
    /\ store \in LoadedStores
    /\ persisted = store
    /\ cache = <<>>
    /\ last = NoRun
    /\ ext = NoExtract
    /\ lookup = NoRun
    /\ listing = NoRun
    /\ inflight = <<>>

SpecSingle == SingleInit /\ [][ExtractSingle]_vars

\* C29: extractSingle for a ticker that is not in the store, for a filing key
\* that is not among that company's filings, or for a filing with an empty
\* document URL leaves the store as it was, does not invoke the extractor and
\* does not write the persisted store.
C29_RejectedSingleChangesNothing ==
    [][(last'.op = "extract_single"
          /\ \/ last'.ticker \notin DOMAIN store
             \/ last'.accession \notin DOMAIN store[last'.ticker].filings
             \/ "url" \notin DOMAIN store[last'.ticker].filings[last'.accession]
             \/ store[last'.ticker].filings[last'.accession].url = "") =>
          /\ store' = store
          /\ persisted' = persisted
          /\ last'.events = <<>>
          /\ last'.saves = 0
          /\ last'.outcome \in {"not_found", "no_url"}]_vars

\* a filing whose url is empty was asked for: nothing was extracted or saved
C29_Witness ==
    /\ last.op = "extract_single" /\ last.outcome = "no_url"
    /\ last.ticker \in DOMAIN store
    /\ last.accession \in DOMAIN store[last.ticker].filings
    /\ "url" \in DOMAIN store[last.ticker].filings[last.accession]
    /\ store[last.ticker].filings[last.accession].url = ""
    /\ last.events = <<>> /\ last.saves = 0
    /\ persisted = store

(***************************************************************************)
(* SpecChain: the callbacks Dash runs after one user action.  A click      *)
(* invokes the callback that has the button as Input; when a callback      *)
(* returns a value for company-store.data, every callback that has         *)
(* Input('company-store', 'data') is invoked with the store as trigger     *)
(* (update_company_table line 38, update_filings_display line 121,         *)
(* update_dropdown_options line 396).  Whether Dash invokes a callback     *)
(* again for a change of its own output is not decided by this code and is *)
(* left open.  inflight is the queue of invocations still to run; last     *)
(* counts what the chain of the latest click did.                          *)
(***************************************************************************)
MaxActions == 2

StoreTrigger == "company-store.data"
UpdateButton == "update-filings-btn.n_clicks"

Buttons ==
    {"add-company-btn.n_clicks", "remove-company-btn.n_clicks", UpdateButton,
     "extract-oil-btn.n_clicks", "extract-single-btn.n_clicks"}

\* the callback that has the button as Input (lines 54-55, 122, 226, 311)
CallbackOf(button) ==
    CASE button \in {"add-company-btn.n_clicks", "remove-company-btn.n_clicks"} ->
            "manage_companies"
      [] button = UpdateButton -> "update_filings_display"
      [] button = "extract-oil-btn.n_clicks" -> "extract_oil_data_bulk"
      [] OTHER -> "extract_single_filing"

StoreListeners ==
    <<"update_company_table", "update_filings_display", "update_dropdown_options">>

\* the stores of this specification: no company, or one with some filings
ChainStores ==
    {EmptyDict}
        \cup {Put(EmptyDict, t,
                  [info |-> [ticker |-> t, cik |-> CikOf(t)],
                   filings |-> [a \in S |-> FilingData(a, "https://www.sec.gov/doc-a.htm")]]) :
                t \in Tickers, S \in SUBSET {AccessionNumbers[1], AccessionNumbers[2]}}

\* what the update loop can leave of companies: the same companies, no filing lost
MergedStores(companies) ==
    {s \in ChainStores :
        /\ DOMAIN s = DOMAIN companies
        /\ \A t \in DOMAIN s : DOMAIN companies[t].filings \subseteq DOMAIN s[t].filings}

\* the first element of a callback's return value: no_update, or the store to
\* write, and whether save_company_data was called with it
NoUpdate == [written |-> FALSE]
Written(companies, saved) == [written |-> TRUE, data |-> companies, saved |-> saved]

\* mutant: the store-triggered branch hands the store back
DisplayWritesBack(call, store_data, merged) ==
    IF call.raises THEN NoUpdate
    ELSE IF call.triggered = <<>> THEN NoUpdate
    ELSE IF call.triggered[1] = StoreTrigger THEN Written(store_data, FALSE)
    ELSE IF call.triggered[1] = UpdateButton /\ call.n_clicks # 0
    THEN IF store_data = EmptyDict THEN NoUpdate
         ELSE IF call.filing_types = <<>> THEN NoUpdate
         ELSE IF ~validate_date_range(call.range[1], call.range[2]) THEN NoUpdate
         ELSE Written(merged, merged # store_data)
    ELSE NoUpdate

\* update_filings_display, lines 128-221, as far as company-store.data goes.
\* call is [triggered, n_clicks, range, filing_types, raises]: ctx.triggered,
\* the arguments, and whether something raised into the outer except; merged
\* is companies after the loop of lines 162-205
update_filings_display(call, store_data, merged) ==
    IF call.raises THEN NoUpdate
    ELSE IF call.triggered = <<>> THEN NoUpdate
    ELSE IF call.triggered[1] = StoreTrigger THEN NoUpdate
    ELSE IF call.triggered[1] = UpdateButton /\ call.n_clicks # 0
    THEN IF store_data = EmptyDict THEN NoUpdate
         ELSE IF call.filing_types = <<>> THEN NoUpdate
         ELSE IF ~validate_date_range(call.range[1], call.range[2]) THEN NoUpdate
         ELSE Written(merged, merged # store_data)
    ELSE NoUpdate

\* what the invoked callback can return for the store
Outputs(invocation, store_data) ==
    CASE invocation.cb = "update_filings_display" ->
            {update_filings_display(
                 [triggered |-> <<invocation.triggered>>, n_clicks |-> n, range |-> r,
                  filing_types |-> f, raises |-> x], store_data, m) :
                n \in {0, 1}, r \in DateRanges, f \in FilingTypeChoices,
                x \in BOOLEAN, m \in MergedStores(store_data)}
      [] invocation.cb \in {"update_company_table", "update_dropdown_options"} ->
            {NoUpdate}
      [] OTHER -> {NoUpdate} \cup {Written(s, TRUE) : s \in ChainStores}

Invocation(cb, triggered) == [cb |-> cb, triggered |-> triggered]

\* the invocations a store write by callback cb brings about
TriggeredBy(cb, again) ==
    SelectSeq([i \in 1..Len(StoreListeners) |-> Invocation(StoreListeners[i], StoreTrigger)],
              LAMBDA v : v.cb # cb \/ again)

ChainInit ==
    /\ store \in ChainStores
    /\ persisted = store
    /\ cache = <<>>
    /\ last = [op |-> "chain", actions |-> 0, button |-> "", runs |-> 0,
               display_runs |-> 0, writes |-> 0]
    /\ ext = NoExtract
    /\ lookup = NoRun
    /\ listing = NoRun
    /\ inflight = <<>>

\* the user clicks a button once the page is at rest
Click ==
    /\ inflight = <<>>
    /\ last.actions < MaxActions
    /\ \E button \in Buttons :
          /\ inflight' = <<Invocation(CallbackOf(button), button)>>
          /\ last' = [op |-> "chain", actions |-> last.actions + 1, button |-> button,
                      runs |-> 0, display_runs |-> 0, writes |-> 0]
    /\ UNCHANGED <<store, persisted, cache, ext, lookup, listing>>

\* Dash runs the next invocation and queues what its store output triggers
RunCallback ==
    /\ inflight # <<>>
    /\ \E out \in Outputs(Head(inflight), store), again \in BOOLEAN :
          /\ store' = IF out.written THEN out.data ELSE store
          /\ persisted' = IF out.written /\ out.saved THEN save_company_data(out.data)
                          ELSE persisted
          /\ inflight' = Tail(inflight)
                             \o (IF out.written THEN TriggeredBy(Head(inflight).cb, again)
                                 ELSE <<>>)
          /\ last' = [last EXCEPT
                        !.runs = @ + 1,
                        !.display_runs =
                            @ + (IF Head(inflight).cb = "update_filings_display"
                                 THEN 1 ELSE 0),
                        !.writes = @ + (IF out.written THEN 1 ELSE 0)]
    /\ UNCHANGED <<cache, ext, lookup, listing>>

ChainNext ==
    \/ Click
    \/ RunCallback

\* Dash runs every invocation it has queued
SpecChain == ChainInit /\ [][ChainNext]_vars /\ WF_vars(RunCallback)

\* the next invocation to run is update_filings_display triggered by the store
DisplayOnlyNext ==
    /\ inflight # <<>>
    /\ Head(inflight).cb = "update_filings_display"
    /\ Head(inflight).triggered = "company-store.data"

\* C30: update_filings_display triggered by a store change does not write the
\* store and triggers nothing; in the chain of one click it runs at most once
\* after the click's own invocation (twice for an update-filings click, once
\* otherwise) and the store is written at most once; and every chain comes to
\* an end.
C30_DisplayOnlyEndsTheChain ==
    /\ [][DisplayOnlyNext => (store' = store /\ persisted' = persisted
                                /\ inflight' = Tail(inflight))]_vars
    /\ [](/\ last.writes <= 1
          /\ last.display_runs <= (IF last.button = "update-filings-btn.n_clicks"
                                   THEN 2 ELSE 1)
          /\ last.runs <= 4)
    /\ (inflight # <<>>) ~> (inflight = <<>>)

\* an update-filings click wrote the store, update_filings_display ran a second
\* time for the store change, wrote nothing, and the chain is at its end
C30_Witness ==
    /\ last.button = "update-filings-btn.n_clicks"
    /\ last.writes = 1
    /\ last.display_runs = 2
    /\ inflight = <<>>

=========================================================================
